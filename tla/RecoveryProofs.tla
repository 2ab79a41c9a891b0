--------------------------- MODULE RecoveryProofs ---------------------------
(***************************************************************************)
(* What survives a crash: the invariants of a live session, and those of   *)
(* LiveRecovery, over any number of crashes, restarts and flattens.        *)
(*                                                                         *)
(* A step of RecoverySpec is either a step of the session, of which        *)
(* LiveTypes, LiveSafetyProofs and RecordProofs say what it preserves, or  *)
(* one of Crash, Restart and flatten_all's own.                            *)
(***************************************************************************)
EXTENDS LiveRecovery, RecordProofs

(***************************************************************************)
(* Steps                                                                   *)
(***************************************************************************)
StopPressed == PressStop /\ entryLimit' = Cardinality(Buys) + (IF EntryUnderWay THEN 1 ELSE 0)

\* A step of the session itself; only the emergency stop sets the kill switch.
SessionStep ==
    /\ [Next]_vars
    /\ UNCHANGED <<flatVars, cutShort>>
    /\ StopPressed \/ (UNCHANGED entryLimit /\ (killSwitch' => killSwitch))

LEMMA SwitchKept ==
    ASSUME EngineStep \/ ReceiveCandle \/ Notify \/ UiStep \/ ClearKillSwitch \/ ExchangeMoves
    PROVE  killSwitch' => killSwitch
<1>1. CASE UNCHANGED dbVars
    BY <1>1 DEF dbVars
<1>2. CASE RiskCheck \/ EntryPlaced \/ EntryUnanswered \/ RecordFill \/ StopPlaced \/ SavePosition
    BY <1>2 DEF RiskCheck, EntryPlaced, EntryUnanswered, RecordFill, StopPlaced, SavePosition
<1>3. CASE VerifyStop \/ ExitPlaced \/ RecordExit \/ MarkCancelled \/ ClearKillSwitch \/ ExitFailed
              \/ StopFailed
    BY <1>3 DEF VerifyStop, ExitPlaced, RecordExit, MarkCancelled, ClearKillSwitch, ExitFailed,
                StopFailed
<1>4. CASE EngineStep
    BY <1>1, <1>2, <1>3, <1>4
    DEF EngineStep, EntryStep, ExitStep, ExecuteBuy, ExecuteSell, Place, LookupByTag, PollPlaced,
        EntryRefused, ReadFill, SquareOff, CancelStop, PollCancel, QueueSignal
<1>5. CASE ReceiveCandle \/ Notify \/ ExchangeMoves
    BY <1>1, <1>5 DEF ReceiveCandle, IgnoreCandle, StartCandle, Notify, NotifyStaleFeed,
                      NotifyNetworkFailure, NotifyReconnected, ExchangeMoves
<1>6. CASE UiStep \/ ClearKillSwitch
    BY <1>1, <1>3, <1>6 DEF UiStep, ScanUnresolved, CancelNextEntry, PollCancelledEntry
<1> QED
    BY <1>4, <1>5, <1>6

LEMMA RecoverySteps ==
    ASSUME [RecoveryNext]_allVars
    PROVE  SessionStep \/ FlattenStep \/ Crash \/ Restart
<1>1. CASE EngineRuns \/ (ExchangeMoves /\ UNCHANGED recoveryVars)
    BY <1>1, SwitchKept DEF EngineRuns, SessionStep, Next, recoveryVars
<1>2. CASE UiRuns
    BY <1>2, SwitchKept DEF UiRuns, SessionStep, StopPressed, Next, recoveryVars
<1>3. CASE UNCHANGED allVars
    BY <1>3 DEF allVars, SessionStep, recoveryVars, vars, dbVars
<1> QED
    BY <1>1, <1>2, <1>3 DEF RecoveryNext

(***************************************************************************)
(* Types.  flatten_all, too, polls orders of the book only.                *)
(***************************************************************************)
FlatWF ==
    /\ flatPos \in PosRow /\ flatPos.stop \in Known
    /\ flatBid \in Known
    /\ flattens \in Nat /\ entryLimit \in Nat
    /\ uiPc = "flatPollCancel" => flatPos.stop # NoOrder
    /\ uiPc = "flatPoll" => flatBid # NoOrder

RecoveryWF == WellFormed /\ FlatWF

\* flatten_all places its exit without a signal id, whatever it sells.
SellAccepted == ~brokerHalted /\ Accept(NewOrder(NoSignal, "EXIT", flatPos.qty))

StopSettled ==
    /\ flatPos.stop # NoOrder /\ SettlesOne
    /\ Settle(flatPos.stop, "CANCELLED", 0)

LEMMA FlattenExchange ==
    ASSUME RecoveryWF, FlattenStep
    PROVE  \/ UNCHANGED exchangeVars
           \/ FlattenCancelsStop /\ StopSettled
           \/ FlattenPlacesExit /\ SellAccepted
<1>1. CASE FlattenCancelsStop
    BY <1>1, CancelKinds DEF FlattenCancelsStop, StopSettled, RecoveryWF, FlatWF, exchangeVars
<1>2. CASE FlattenPlacesExit
    BY <1>2 DEF FlattenPlacesExit, SellAccepted, PlaceAccepted, PlaceRefused
<1> QED
    BY <1>1, <1>2 DEF FlattenStep, StartFlatten, FlattenPollsStop, FlattenRecordsExit, FlattenPollsExit,
        FlattenUpdatesRow, FlattenDeletesPosition, Poll, PollSettles, PollTimesOut, exchangeVars

LEMMA SellEffect ==
    ASSUME RecoveryWF, SellAccepted
    PROVE  LET n == Len(book) + 1 IN
           /\ n \notin DOMAIN book /\ DOMAIN book' = DOMAIN book \cup {n} /\ n = Len(book')
           /\ \A j \in DOMAIN book : book'[j] = book[j]
           /\ book'[n].side = "SELL" /\ book'[n].tag = NoSignal /\ ~book'[n].stop
           /\ book'[n].status # "COMPLETE"
           /\ net' = net
           /\ ExchangeTypeOK' /\ Len(book') = Len(book) + 1
<1> DEFINE o == NewOrder(NoSignal, "EXIT", flatPos.qty)
<1>1. o \in BookOrder /\ o.side = "SELL" /\ o.tag = NoSignal /\ ~o.stop /\ o.status = "OPEN"
    <2>1. flatPos.qty \in Nat
        BY DEF RecoveryWF, FlatWF, PosRow
    <2>2. o \in BookOrder
        BY <2>1, NewOrderType DEF OrderPurpose
    <2> QED
        BY <2>2 DEF NewOrder
<1>2. Accept(o)
    BY DEF SellAccepted
<1> HIDE DEF o
<1>3. ExchangeTypeOK
    BY DEF RecoveryWF, WellFormed
<1>4. ~book'[Len(book) + 1].stop
    <2>1. PICK x : book' = Append(book, x) /\ x.stop = o.stop
        <3>1. [o EXCEPT !.status = "REJECTED"].stop = o.stop
            BY <1>1 DEF BookOrder
        <3> QED
            BY <1>2, <3>1 DEF Accept
    <2>2. book'[Len(book) + 1] = x
        BY <1>3, <2>1 DEF ExchangeTypeOK
    <2> QED
        BY <1>1, <2>1, <2>2
<1> QED
    BY <1>1, <1>2, <1>3, <1>4, AcceptEffect, AcceptType

\* What flatten_all does to the order book.
LEMMA FlattenBook ==
    ASSUME RecoveryWF, FlattenStep
    PROVE  /\ ExchangeTypeOK' /\ Len(book) <= Len(book')
           /\ \A j \in DOMAIN book : /\ Kept(j)
                                     /\ \/ book'[j] = book[j]
                                        \/ /\ book'[j].status = "CANCELLED"
                                           /\ j = flatPos.stop /\ j # NoOrder
           /\ \A j \in DOMAIN book' : \/ j \in DOMAIN book
                                      \/ /\ book'[j].tag = NoSignal /\ ~book'[j].stop
                                         /\ book'[j].status # "COMPLETE"
           /\ Buys' = Buys
<1> USE DEF RecoveryWF, WellFormed
<1>1. CASE UNCHANGED exchangeVars
    BY <1>1 DEF exchangeVars, ExchangeTypeOK, Kept, Buys
<1>2. CASE StopSettled
    <2> DEFINE i == flatPos.stop
    <2>1. i \in DOMAIN book
        BY <1>2, BookOrders DEF StopSettled, FlatWF
    <2>2. PICK j \in DOMAIN book, s \in {"COMPLETE", "CANCELLED"}, f \in Nat : Settles(j, s, f)
        BY <1>2 DEF StopSettled, SettlesOne
    <2>3. /\ DOMAIN book' = DOMAIN book
          /\ \A k \in DOMAIN book : Kept(k)
        BY <2>2, SettlesKeeps
    <2>4. ExchangeTypeOK' /\ Len(book') = Len(book)
        BY <1>2, <2>1, SettleType DEF StopSettled
    <2>5. /\ \A k \in DOMAIN book : k # i => book'[k] = book[k]
          /\ book'[i].status = "CANCELLED"
        <3>1. book[i] \in BookOrder
            BY <2>1 DEF ExchangeTypeOK
        <3>2. book'[i] = [book[i] EXCEPT !.status = "CANCELLED", !.filled = 0]
            BY <1>2, <2>1 DEF StopSettled, Settle, ExchangeTypeOK
        <3>3. book'[i].status = "CANCELLED"
            BY <3>1, <3>2 DEF BookOrder
        <3> QED
            BY <1>2, <2>1, <3>3 DEF StopSettled, Settle, ExchangeTypeOK
    <2>6. Len(book) <= Len(book')
        BY <2>4 DEF ExchangeTypeOK
    <2>7. Buys' = Buys
        BY <2>3 DEF Buys, Kept
    <2> QED
        BY <1>2, <2>3, <2>4, <2>5, <2>6, <2>7 DEF StopSettled
<1>3. CASE SellAccepted
    <2> DEFINE n == Len(book) + 1
    <2>1. /\ n \notin DOMAIN book /\ DOMAIN book' = DOMAIN book \cup {n}
          /\ \A j \in DOMAIN book : book'[j] = book[j]
          /\ book'[n].side = "SELL" /\ book'[n].tag = NoSignal /\ ~book'[n].stop
          /\ book'[n].status # "COMPLETE"
          /\ ExchangeTypeOK' /\ Len(book') = Len(book) + 1
        BY <1>3, SellEffect
    <2>2. Len(book) <= Len(book')
        BY <2>1 DEF ExchangeTypeOK
    <2> HIDE DEF n
    <2>3. Buys' = Buys
        BY <2>1 DEF Buys
    <2> QED
        BY <2>1, <2>2, <2>3 DEF Kept
<1> QED
    BY <1>1, <1>2, <1>3, FlattenExchange

LEMMA FlattenFrame ==
    ASSUME FlattenStep
    PROVE  /\ UNCHANGED <<engineVars, flagVars, callVars, uiTodo, uiOrder, stops, entryLimit, cutShort>>
           /\ UNCHANGED <<tradedQty, killSwitch, lossLatch>>
BY DEF FlattenStep, StartFlatten, FlattenCancelsStop, FlattenPollsStop, FlattenRecordsExit,
       FlattenPlacesExit, FlattenPollsExit, FlattenUpdatesRow, FlattenDeletesPosition, flatFrame, dbVars

LEMMA FlattenKite ==
    ASSUME RecoveryWF, FlattenStep PROVE KiteWF'
<1> USE DEF RecoveryWF, WellFormed
<1>0. DOMAIN book \subseteq DOMAIN book' /\ ExchangeTypeOK'
    BY FlattenBook DEF Kept
<1>1. CASE UNCHANGED orderInfo /\ brokerHalted' \in BOOLEAN
    BY <1>0, <1>1 DEF KiteWF, KiteTypeOK
<1>2. ASSUME NEW i \in Known, i # NoOrder, Poll(i) PROVE KiteWF'
    <2>1. i \in DOMAIN book
        BY <1>2, BookOrders
    <2> QED
        BY <1>2, <2>1, PollType DEF KiteWF, exchangeVars
<1>3. CASE FlattenPollsStop \/ FlattenPollsExit
    BY <1>2, <1>3 DEF FlattenPollsStop, FlattenPollsExit, FlatWF
<1>4. CASE FlattenPlacesExit
    BY <1>1, <1>4 DEF FlattenPlacesExit, PlaceAccepted, PlaceRefused, kiteVars, KiteWF, KiteTypeOK
<1>5. CASE UNCHANGED kiteVars
    BY <1>1, <1>5 DEF kiteVars, KiteWF, KiteTypeOK
<1> QED
    BY <1>3, <1>4, <1>5 DEF FlattenStep, StartFlatten, FlattenCancelsStop, FlattenRecordsExit,
        FlattenUpdatesRow, FlattenDeletesPosition, RequestCancel

\* flatten_all adds a row of its own, and writes no other.
LEMMA FlattenRows ==
    ASSUME RecoveryWF, FlattenStep
    PROVE  /\ DOMAIN dbOrders' \subseteq DOMAIN dbOrders \cup {FlattenKey}
           /\ \A k \in DOMAIN dbOrders : /\ k \in DOMAIN dbOrders'
                                         /\ k # FlattenKey => dbOrders'[k] = dbOrders[k]
           /\ \A k \in DOMAIN dbOrders' : /\ dbOrders'[k] \in OrderRow
                                          /\ \/ k \in DOMAIN dbOrders /\ dbOrders'[k] = dbOrders[k]
                                             \/ dbOrders'[k].bid = NoOrder
                                             \/ FlattenUpdatesRow /\ dbOrders'[k].bid = flatBid
           /\ FlattenKey \in OrderKeys /\ FlattenKey[2] # "ENTRY"
<1> USE DEF RecoveryWF, WellFormed
<1>1. \A k \in DOMAIN dbOrders : dbOrders[k] \in OrderRow
    BY DEF DbWF, DbTypeOK
<1>2. FlattenKey \in OrderKeys /\ FlattenKey[2] # "ENTRY"
    BY DEF FlatWF, FlattenKey, OrderKeys, OrderPurpose
<1>3. {"CREATED", "SUBMITTED"} \subseteq OrderStatus
    BY DEF OrderStatus, NonTerminalStatuses
<1>4. NoOrder \in OrderId /\ flatBid \in OrderId
    BY DEF FlatWF, NoOrder, OrderId, Known, ExchangeTypeOK
<1> HIDE DEF RecoveryWF, WellFormed
<1>5. CASE UNCHANGED dbOrders
    BY <1>1, <1>2, <1>5
<1>6. CASE FlattenRecordsExit
    <2>1. CASE InsertOrder(FlattenKey, "CREATED", NoOrder)
        BY <1>1, <1>2, <1>3, <1>4, <2>1 DEF InsertOrder, OrderRow
    <2>2. CASE InsertFails(FlattenKey)
        BY <1>5, <2>2 DEF InsertFails
    <2> QED
        BY <1>6, <2>1, <2>2 DEF FlattenRecordsExit
<1>7. CASE FlattenUpdatesRow
    <2>1. dbOrders' = [dbOrders EXCEPT ![FlattenKey] = [status |-> "SUBMITTED", bid |-> flatBid]]
        BY <1>7 DEF FlattenUpdatesRow
    <2>2. DOMAIN dbOrders' = DOMAIN dbOrders
        BY <2>1
    <2>3. \A k \in DOMAIN dbOrders :
             dbOrders'[k] = IF k = FlattenKey THEN [status |-> "SUBMITTED", bid |-> flatBid]
                                              ELSE dbOrders[k]
        BY <2>1
    <2>4. [status |-> "SUBMITTED", bid |-> flatBid] \in OrderRow
        BY <1>3, <1>4 DEF OrderRow
    <2> QED
        BY <1>1, <1>2, <1>7, <2>2, <2>3, <2>4
<1> QED
    BY <1>5, <1>6, <1>7 DEF FlattenStep, StartFlatten, FlattenCancelsStop, FlattenPollsStop,
        FlattenPlacesExit, FlattenPollsExit, FlattenDeletesPosition, dbVars

LEMMA FlattenDb ==
    ASSUME RecoveryWF, FlattenStep PROVE DbWF'
<1> USE DEF RecoveryWF, WellFormed
<1>1. Known \subseteq Known'
    BY FlattenBook DEF ExchangeTypeOK, Known
<1>2. RowsWF'
    BY <1>1, FlattenRows DEF DbWF, DbTypeOK, RowsWF, FlatWF, Known, NoOrder, ExchangeTypeOK
<1>3. TablesWF'
    <2>1. dbPosition' = dbPosition \/ dbPosition' = NoPosition
        BY DEF FlattenStep, StartFlatten, FlattenCancelsStop, FlattenPollsStop, FlattenRecordsExit,
               FlattenPlacesExit, FlattenPollsExit, FlattenUpdatesRow, FlattenDeletesPosition, dbVars
    <2>2. NoPosition \in PosRow /\ NoPosition.stop \in Known'
        BY FlattenBook DEF NoPosition, NoOrder, PosRow, OrderId, Known, ExchangeTypeOK
    <2> QED
        BY <1>1, <2>1, <2>2, FlattenFrame DEF DbWF, DbTypeOK, TablesWF
<1> QED
    BY <1>2, <1>3, DbWFSplits DEF DbWF, DbTypeOK, RowsWF, TablesWF

LEMMA FlattenCalls ==
    ASSUME RecoveryWF, FlattenStep PROVE EngineTypeOK' /\ CallWF' /\ UiWF'
<1> USE DEF RecoveryWF, WellFormed
<1>1. Known \subseteq Known'
    BY FlattenBook DEF ExchangeTypeOK, Known
<1>2. uiPc' \in {"ready"} \cup RecoveryLocations
    BY DEF FlattenStep, StartFlatten, FlattenCancelsStop, FlattenPollsStop, FlattenRecordsExit,
           FlattenPlacesExit, FlattenPollsExit, FlattenUpdatesRow, FlattenDeletesPosition,
           RecoveryLocations
<1>3. EngineTypeOK'
    BY FlattenFrame DEF engineVars, flagVars, EngineTypeOK
<1>4. CallWF'
    BY <1>1, FlattenFrame DEF engineVars, callVars, CallWF, CallTypeOK, InCall
<1>5. UiWF'
    BY <1>1, <1>2, FlattenFrame DEF UiWF, UiTypeOK, UiLocations, RecoveryLocations
<1> QED
    BY <1>3, <1>4, <1>5

LEMMA FlattenFlat ==
    ASSUME RecoveryWF, FlattenStep PROVE FlatWF'
<1> USE DEF RecoveryWF, WellFormed
<1>1. Known \subseteq Known' /\ 0 \in Known' /\ entryLimit' = entryLimit
    BY FlattenBook, FlattenFrame DEF ExchangeTypeOK, Known
<1>2. NoPosition \in PosRow /\ NoPosition.stop = 0 /\ NoOrder = 0
    BY DEF NoPosition, NoOrder, PosRow, OrderId
<1>3. CASE StartFlatten
    BY <1>1, <1>2, <1>3 DEF StartFlatten, FlatWF, DbWF, DbTypeOK
<1>4. CASE FlattenCancelsStop \/ FlattenPollsStop \/ FlattenPollsExit \/ FlattenUpdatesRow
              \/ FlattenRecordsExit
    BY <1>1, <1>2, <1>4 DEF FlattenCancelsStop, FlattenPollsStop, FlattenPollsExit, FlattenUpdatesRow,
                      FlattenRecordsExit, flatVars, FlatWF
<1>5. CASE FlattenPlacesExit
    <2>1. CASE SellAccepted /\ flatBid' = Len(book') /\ uiPc' = "flatPoll"
        <3>1. Len(book') \in Known' /\ Len(book') # 0
            BY <2>1, SellEffect DEF Known, ExchangeTypeOK
        <3> QED
            BY <1>1, <1>2, <1>5, <2>1, <3>1 DEF FlattenPlacesExit, FlatWF
    <2>2. CASE UNCHANGED flatBid /\ uiPc' = "flatDelete"
        BY <1>1, <1>2, <1>5, <2>2 DEF FlattenPlacesExit, FlatWF
    <2> QED
        BY <1>5, <2>1, <2>2 DEF FlattenPlacesExit, PlaceAccepted, SellAccepted
<1>6. CASE FlattenDeletesPosition
    BY <1>1, <1>2, <1>6 DEF FlattenDeletesPosition, FlatWF
<1> QED
    BY <1>3, <1>4, <1>5, <1>6 DEF FlattenStep

\* The session's own UI steps neither enter nor leave flatten_all.
LEMMA UiMoves ==
    ASSUME [Next]_vars PROVE uiPc' = uiPc \/ {uiPc, uiPc'} \subseteq UiLocations
BY StepTouches DEF Touches, uiVars, PressStop, UiStep, ScanUnresolved, CancelNextEntry,
                   PollCancelledEntry, MarkCancelled, UiLocations

LEMMA BuysCounted ==
    ASSUME ExchangeTypeOK PROVE IsFiniteSet(Buys) /\ Cardinality(Buys) \in Nat
<1>1. Len(book) \in Nat /\ Buys \subseteq 1..Len(book)
    BY DEF ExchangeTypeOK, Buys
<1>2. IsFiniteSet(1..Len(book))
    BY <1>1, FS_Interval
<1> QED
    BY <1>1, <1>2, FS_Subset, FS_CardinalityType

LEMMA LimitType ==
    ASSUME RecoveryWF, SessionStep PROVE entryLimit' \in Nat
<1>1. CASE UNCHANGED entryLimit
    BY <1>1 DEF RecoveryWF, FlatWF
<1>2. CASE StopPressed
    BY <1>2, BuysCounted DEF StopPressed, RecoveryWF, WellFormed
<1> QED
    BY <1>1, <1>2 DEF SessionStep

LEMMA SessionWF == ASSUME RecoveryWF, SessionStep PROVE RecoveryWF'
<1>1. WellFormed'
    BY WellFormedStep DEF RecoveryWF, SessionStep
<1>2. Known \subseteq Known' /\ UNCHANGED flatVars
    BY KnownGrows DEF RecoveryWF, SessionStep
<1>3. uiPc' = uiPc \/ uiPc' \notin {"flatPollCancel", "flatPoll"}
    BY UiMoves DEF SessionStep, UiLocations
<1>4. FlatWF'
    BY <1>2, <1>3, LimitType DEF RecoveryWF, FlatWF, flatVars
<1> QED
    BY <1>1, <1>4 DEF RecoveryWF

LEMMA FlattenWF == ASSUME RecoveryWF, FlattenStep PROVE RecoveryWF'
BY FlattenBook, FlattenKite, FlattenDb, FlattenCalls, FlattenFlat DEF RecoveryWF, WellFormed

LEMMA NoOrderKnown ==
    ASSUME ExchangeTypeOK
    PROVE  NoOrder \in Known /\ NoPosition \in PosRow /\ NoPosition.stop \in Known
BY DEF ExchangeTypeOK, Known, NoOrder, NoPosition, PosRow, OrderId

LEMMA CrashWF == ASSUME RecoveryWF, Crash PROVE RecoveryWF'
<1> USE DEF RecoveryWF, WellFormed, Crash, Leave
<1>1. book' = book /\ net' = net /\ Known' = Known /\ dbVars' = dbVars /\ candle' = candle
    BY DEF exchangeVars, Known
<1>2. ExchangeTypeOK' /\ KiteWF'
    <2>1. DOMAIN orderInfo' = {} /\ brokerHalted' = FALSE
        OBVIOUS
    <2> QED
        BY <1>1, <2>1 DEF ExchangeTypeOK, KiteWF, KiteTypeOK
<1>3. DbWF'
    BY <1>1 DEF DbWF, DbTypeOK, dbVars
<1>4. EngineTypeOK'
    BY <1>1 DEF EngineTypeOK
<1>5. CallWF'
    BY <1>1, NoOrderKnown DEF CallWF, CallTypeOK, EngineLocations, RecoveryLocations, OrderPurpose, OrderId,
                        NoOrder, InCall, Resting
<1>6. UiWF' /\ FlatWF'
    <2>1. CASE UNCHANGED <<uiVars, flatVars>>
        BY <1>1, <2>1 DEF UiWF, UiTypeOK, uiVars, FlatWF, flatVars
    <2>2. CASE UiDies
        <3>1. NoRow \in UiRow /\ NoRow.bid = NoOrder
            BY DEF NoRow, UiRow, NoOrder, OrderId, OrderStatus, NonTerminalStatuses
        <3>2. UiWF'
            BY <1>1, <2>2, <3>1, NoOrderKnown DEF UiDies, UiWF, UiTypeOK, UiLocations
        <3> QED
            BY <1>1, <2>2, <3>2, NoOrderKnown DEF UiDies, FlatWF
    <2> QED
        BY <2>1, <2>2
<1> QED
    BY <1>2, <1>3, <1>4, <1>5, <1>6

LEMMA ReconcileType == ASSUME Reconcile PROVE safeMode' \in BOOLEAN
BY DEF Reconcile

LEMMA RestartWF == ASSUME RecoveryWF, Restart PROVE RecoveryWF'
<1> USE DEF RecoveryWF, WellFormed, Restart
<1>1. book' = book /\ net' = net /\ Known' = Known
    BY DEF exchangeVars, Known
<1>2. ExchangeTypeOK' /\ KiteWF' /\ DbWF'
    BY <1>1 DEF ExchangeTypeOK, KiteWF, KiteTypeOK, kiteVars, DbWF, DbTypeOK, dbVars
<1>3. EngineTypeOK'
    BY <1>1, ReconcileType DEF EngineTypeOK, engineVars
<1>4. CallWF'
    BY <1>1 DEF GoTo, CallWF, CallTypeOK, EngineLocations, engineVars, InCall, Resting
<1>5. UiWF' /\ FlatWF'
    BY <1>1 DEF UiWF, UiTypeOK, uiVars, FlatWF, recoveryVars, flatVars
<1> QED
    BY <1>2, <1>3, <1>4, <1>5

LEMMA RecoveryWFStep == RecoveryWF /\ [RecoveryNext]_allVars => RecoveryWF'
BY RecoverySteps, SessionWF, FlattenWF, CrashWF, RestartWF

LEMMA RecoveryWFInit == RecoveryInit => RecoveryWF
<1> SUFFICES ASSUME RecoveryInit PROVE RecoveryWF
    OBVIOUS
<1>1. WellFormed
    BY WellFormedInit DEF RecoveryInit
<1> QED
    BY <1>1, NoOrderKnown DEF RecoveryInit, Init, RecoveryWF, WellFormed, FlatWF

LEMMA RecoveryWellFormed == RecoverySpec => []RecoveryWF
BY RecoveryWFInit, RecoveryWFStep, PTL DEF RecoverySpec

\* A process that dies and comes back, and a user who flattens, keep every
\* variable in its type; in particular every id that the engine, the database
\* and the UI hold names an order of the account.
THEOREM RecoveryTypeCorrect == RecoverySpec => []TypeOK
<1>1. RecoveryWF => TypeOK
    BY DEF RecoveryWF, WellFormed, TypeOK, KiteWF, DbWF, CallWF, UiWF
<1> QED
    BY <1>1, RecoveryWellFormed, PTL

(***************************************************************************)
(* Records.  A restarted engine has forgotten which signals it has seen,   *)
(* but its feed goes on from the same candle: a BUY signal it may still    *)
(* act on is newer than every order of the account (TagInv).               *)
(***************************************************************************)
RecoveryRecords == RecordInv /\ OneEntryPerSignal

LEMMA FlattenTags == ASSUME RecoveryWF, TagInv, FlattenStep PROVE TagInv'
<1>1. Tags' \subseteq Tags \cup {NoSignal}
    BY FlattenBook DEF Tags, Kept
<1>2. NoSignal[1] # "BUY"
    BY SignalNumbers DEF RecoveryWF
<1>3. UNCHANGED <<candle, pending, pc, sid, purpose>>
    BY FlattenFrame DEF engineVars, callVars
<1>4. EntryComing' = EntryComing /\ InCall' = InCall
    BY <1>3 DEF EntryComing, InCall
<1> QED
    BY <1>1, <1>2, <1>3, <1>4 DEF TagInv

\* The orders the engine and its records speak of.
LEMMA FlattenOrders ==
    ASSUME RecoveryWF, BuysInv, CacheInv, FlattenStep
    PROVE  /\ BuysInv' /\ CacheInv'
           /\ \A i, s : EntryOrder(i, s) => EntryOrder(i, s)'
           /\ \A i \in DOMAIN book : \A q : Filled(i, q) => Filled(i, q)'
           /\ DOMAIN orderInfo \subseteq DOMAIN orderInfo'
<1>1. /\ Buys' = Buys
      /\ \A j \in DOMAIN book : Kept(j) /\ (book'[j] = book[j] \/ book'[j].status = "CANCELLED")
    BY FlattenBook DEF Kept
<1>2. BuysInv'
    BY <1>1 DEF BuysInv, Buys, Kept
<1>3. \A i \in DOMAIN book : \A q : Filled(i, q) => Filled(i, q)'
    BY <1>1 DEF Filled, Kept
<1>4. \A i, s : EntryOrder(i, s) => EntryOrder(i, s)'
    BY <1>1 DEF EntryOrder, Buys, Kept
<1>5. DOMAIN orderInfo \subseteq DOMAIN book
    BY DEF RecoveryWF, WellFormed, KiteWF
<1>6. CASE UNCHANGED orderInfo
    BY <1>2, <1>3, <1>4, <1>5, <1>6 DEF CacheInv, Filled
<1>7. ASSUME NEW i \in Known, i # NoOrder, Poll(i)
      PROVE  CacheInv' /\ DOMAIN orderInfo \subseteq DOMAIN orderInfo'
    <2>1. i \in DOMAIN book
        BY <1>7, BookOrders DEF RecoveryWF
    <2>2. CacheInv'
        BY <1>7, <2>1, PollTells DEF RecoveryWF, WellFormed
    <2> QED
        BY <1>7, <2>2 DEF Poll, PollSettles, PollTimesOut, Remember
<1>8. CASE FlattenPollsStop \/ FlattenPollsExit
    BY <1>2, <1>3, <1>4, <1>7, <1>8 DEF FlattenPollsStop, FlattenPollsExit, RecoveryWF, FlatWF
<1> QED
    BY <1>6, <1>8 DEF FlattenStep, StartFlatten, FlattenCancelsStop, FlattenRecordsExit, FlattenPlacesExit,
        FlattenUpdatesRow, FlattenDeletesPosition, kiteVars, RequestCancel, PlaceAccepted, PlaceRefused

LEMMA FlattenEntryRows ==
    ASSUME RecoveryWF, FlattenStep
    PROVE  /\ EntryRows' = EntryRows
           /\ \A k \in EntryRows : dbOrders'[k] = dbOrders[k]
BY FlattenRows DEF EntryRows

LEMMA FlattenRecords == ASSUME RecoveryWF, RecordInv, FlattenStep PROVE RecordInv'
<1> USE DEF RecordInv
<1>1. TagInv' /\ BuysInv' /\ CacheInv'
    BY FlattenTags, FlattenOrders
<1>2. UNCHANGED <<pc, sid, purpose, bid, pos, uiTodo, uiOrder>>
    BY FlattenFrame DEF callVars
<1>3. /\ Buys' = Buys
      /\ \A j \in DOMAIN book : Kept(j)
      /\ \A j \in DOMAIN book' : \/ j \in DOMAIN book
                                 \/ book'[j].tag = NoSignal /\ ~book'[j].stop
    BY FlattenBook DEF Kept
<1>4. Buys \subseteq DOMAIN book
    BY DEF Buys
<1>5. EntryCallInv'
    <2>1. ASSUME pc = "lookup", purpose = "ENTRY", NEW i \in DOMAIN book', book'[i].tag = sid
          PROVE  i \in Buys
        <3>1. sid # NoSignal
            BY <2>1 DEF RecoveryWF, WellFormed, CallWF, InCall, Resting, SignalIds, NoSignal
        <3>2. i \in DOMAIN book /\ book[i].tag = sid
            BY <1>3, <2>1, <3>1 DEF Kept
        <3> QED
            BY <2>1, <3>2 DEF EntryCallInv
    <2>2. \A s : <<s, "ENTRY">> \in DOMAIN dbOrders =>
                    /\ <<s, "ENTRY">> \in DOMAIN dbOrders'
                    /\ dbOrders'[<<s, "ENTRY">>] = dbOrders[<<s, "ENTRY">>]
        BY FlattenRows
    <2>3. bid \in DOMAIN book /\ EntryOrder(bid, sid) => EntryOrder(bid, sid)'
        BY <1>2, <1>3 DEF EntryOrder, Kept
    <2>4. \A q : bid \in DOMAIN book /\ Filled(bid, q) => Filled(bid, q)'
        BY <1>2, <1>3 DEF Filled, Kept
    <2>5. EntryOrder(bid, sid) => bid \in DOMAIN book
        BY <1>4 DEF EntryOrder
    <2>6. DOMAIN orderInfo \subseteq DOMAIN orderInfo'
        BY FlattenOrders
    <2> QED
        BY <1>2, <1>3, <2>1, <2>2, <2>3, <2>4, <2>5, <2>6 DEF EntryCallInv, EntryOrder, Filled
<1>6. StopCallInv'
    <2> SUFFICES ASSUME purpose = "STOP_LOSS"
                 PROVE  \E i \in Buys' : EntryOrder(i, sid)' /\ Filled(i, pos.qty)'
        BY <1>2 DEF StopCallInv
    <2>1. PICK i \in Buys : EntryOrder(i, sid) /\ Filled(i, pos.qty)
        BY DEF StopCallInv
    <2>2. EntryOrder(i, sid)' /\ Filled(i, pos.qty)'
        BY <1>2, <1>3, <1>4, <2>1 DEF EntryOrder, Filled, Kept
    <2> QED
        BY <1>3, <2>1, <2>2
<1>7. EntryRowsNameTheirOrder'
    BY <1>3, <1>4, FlattenEntryRows DEF EntryRowsNameTheirOrder, Kept
<1>8. StopsMatchFills'
    BY <1>3, <1>4 DEF StopsMatchFills, Kept
<1>9. UiInv'
    BY <1>2, <1>3 DEF UiInv
<1> QED
    BY <1>1, <1>5, <1>6, <1>7, <1>8, <1>9

LEMMA CrashRecords == ASSUME RecordInv, Crash PROVE RecordInv'
<1> USE DEF RecordInv
<1>1. /\ book' = book /\ dbOrders' = dbOrders /\ candle' = candle
      /\ pc' = "down" /\ purpose' = "ENTRY" /\ pending' = NoSignal /\ DOMAIN orderInfo' = {}
    BY DEF Crash, Leave, exchangeVars, dbVars
<1>2. Buys' = Buys /\ Tags' = Tags /\ EntryRows' = EntryRows
    BY <1>1 DEF Buys, Tags, EntryRows
<1>3. TagInv'
    BY <1>1, <1>2 DEF TagInv, EntryComing, InCall, Resting, NoSignal
<1>4. BuysInv' /\ CacheInv' /\ EntryCallInv' /\ StopCallInv'
    BY <1>1, <1>2 DEF BuysInv, CacheInv, EntryCallInv, StopCallInv
<1>5. EntryRowsNameTheirOrder' /\ StopsMatchFills'
    BY <1>1, <1>2 DEF EntryRowsNameTheirOrder, StopsMatchFills
<1>6. UiInv'
    BY <1>2 DEF UiInv, Crash, UiDies, NoRow, uiVars
<1> QED
    BY <1>3, <1>4, <1>5, <1>6

LEMMA RestartRecords == ASSUME RecordInv, Restart PROVE RecordInv'
<1> USE DEF RecordInv
<1>1. /\ UNCHANGED <<book, dbOrders, candle, pending, sid, purpose, bid, pos, orderInfo>>
      /\ UNCHANGED <<uiTodo, uiOrder>>
      /\ pc = "down" /\ pc' = "idle"
    BY DEF Restart, GoTo, Down, exchangeVars, kiteVars, dbVars, engineVars, uiVars
<1>2. Buys' = Buys /\ Tags' = Tags /\ EntryRows' = EntryRows
    BY <1>1 DEF Buys, Tags, EntryRows
<1>3. TagInv' /\ BuysInv'
    BY <1>1, <1>2 DEF TagInv, EntryComing, InCall, Resting, BuysInv
<1>4. CacheInv' /\ EntryCallInv' /\ StopCallInv'
    BY <1>1, <1>2 DEF CacheInv, Filled, EntryCallInv, StopCallInv
<1>5. EntryRowsNameTheirOrder' /\ StopsMatchFills' /\ UiInv'
    BY <1>1, <1>2 DEF EntryRowsNameTheirOrder, StopsMatchFills, UiInv
<1> QED
    BY <1>3, <1>4, <1>5

LEMMA RestingBuys == ASSUME Crash \/ Restart PROVE Buys' = Buys /\ book' = book /\ net' = net
BY DEF Crash, Restart, exchangeVars, Buys

LEMMA OneEntryStep ==
    ASSUME RecoveryWF, RecoveryRecords, [RecoveryNext]_allVars PROVE OneEntryPerSignal'
<1>1. CASE SessionStep
    <2>1. WellFormed /\ [Next]_vars
        BY <1>1 DEF RecoveryWF, SessionStep
    <2>2. CASE BuysKept
        BY <2>2 DEF BuysKept, RecoveryRecords, OneEntryPerSignal
    <2>3. CASE BuyAdded
        <3>1. \A i \in Buys : book[i].tag # sid
            BY <2>3 DEF BuyAdded, Place, EntryComing, RecoveryRecords, RecordInv, TagInv, Tags, Buys
        <3> QED
            BY <2>3, <3>1 DEF BuyAdded, RecoveryRecords, OneEntryPerSignal
    <2> QED
        BY <2>1, <2>2, <2>3, BuysStep
<1>2. CASE FlattenStep
    BY <1>2, FlattenBook DEF Kept, Buys, RecoveryRecords, OneEntryPerSignal
<1>3. CASE Crash \/ Restart
    BY <1>3, RestingBuys DEF RecoveryRecords, OneEntryPerSignal
<1> QED
    BY <1>1, <1>2, <1>3, RecoverySteps

LEMMA RecoveryRecordsStep ==
    RecoveryWF /\ RecoveryRecords /\ [RecoveryNext]_allVars => RecoveryRecords'
<1> SUFFICES ASSUME RecoveryWF, RecoveryRecords, [RecoveryNext]_allVars PROVE RecordInv'
    BY OneEntryStep DEF RecoveryRecords
<1>1. CASE SessionStep
    BY <1>1, RecordStep DEF RecoveryWF, RecoveryRecords, SessionStep
<1>2. CASE FlattenStep \/ Crash \/ Restart
    BY <1>2, FlattenRecords, CrashRecords, RestartRecords DEF RecoveryRecords
<1> QED
    BY <1>1, <1>2, RecoverySteps

LEMMA RecoveryRecordsInit == RecoveryInit => RecoveryRecords
<1> SUFFICES ASSUME RecoveryInit PROVE RecoveryRecords
    OBVIOUS
<1>1. Init /\ Buys = {}
    BY DEF RecoveryInit, Init, Buys
<1> QED
    BY <1>1, RecordInit DEF RecoveryRecords, OneEntryPerSignal

LEMMA RecoveryRecordsHold == RecoverySpec => [](RecoveryWF /\ RecoveryRecords)
BY RecoveryWellFormed, RecoveryRecordsInit, RecoveryRecordsStep, PTL DEF RecoverySpec

\* UNIQUE(signal_id, purpose) and _seen_signal_ids hold up in one session; after
\* a restart the latter is empty, and a row may have failed to be inserted.
\* Still no signal is bought twice, however often the process dies.
THEOREM SignalsBuyOnceForAll == RecoverySpec => []OneEntryPerSignal
<1>1. RecoveryRecords => OneEntryPerSignal
    BY DEF RecoveryRecords
<1> QED
    BY <1>1, RecoveryRecordsHold, PTL

\* An entry row goes on naming the buy order of its own signal, and is COMPLETE
\* only when that order is, through crashes, restarts and flatten_all.
THEOREM EntryRowsStayTrue == RecoverySpec => []EntryRowsNameTheirOrder
<1>1. RecoveryRecords => EntryRowsNameTheirOrder
    BY DEF RecoveryRecords, RecordInv
<1> QED
    BY <1>1, RecoveryRecordsHold, PTL

\* A stop sells exactly what its own entry bought (H3), also when the process
\* died between the fill and the stop, or flatten_all has cancelled it.
THEOREM StopsStillSellTheFill == RecoverySpec => []StopsMatchFills
<1>1. RecoveryRecords => StopsMatchFills
    BY DEF RecoveryRecords, RecordInv
<1> QED
    BY <1>1, RecoveryRecordsHold, PTL

(***************************************************************************)
(* The kill switch.  It is asked once, by the risk check: whoever presses  *)
(* the emergency stop after that finds one entry on its way.               *)
(***************************************************************************)
KillInv ==
    killSwitch => Cardinality(Buys) + (IF EntryUnderWay THEN 1 ELSE 0) <= entryLimit

LEMMA SessionKill == ASSUME RecoveryWF, KillInv, SessionStep PROVE KillInv'
<1>1. WellFormed /\ [Next]_vars /\ IsFiniteSet(Buys) /\ Cardinality(Buys) \in Nat /\ entryLimit \in Nat
    BY BuysCounted DEF RecoveryWF, WellFormed, FlatWF, SessionStep
<1>2. CASE StopPressed
    <2>1. Buys' = Buys /\ EntryUnderWay' = EntryUnderWay
        BY <1>2 DEF StopPressed, PressStop, exchangeVars, callVars, Buys, EntryUnderWay
    <2>2. Cardinality(Buys') = Cardinality(Buys)
        BY <2>1
    <2> QED
        BY <1>1, <1>2, <2>1, <2>2 DEF StopPressed, KillInv
<1>3. CASE UNCHANGED entryLimit /\ (killSwitch' => killSwitch)
    <2> SUFFICES ASSUME killSwitch'
                 PROVE  Cardinality(Buys') + (IF EntryUnderWay' THEN 1 ELSE 0) <= entryLimit
        BY <1>3 DEF KillInv
    <2>1. Cardinality(Buys) + (IF EntryUnderWay THEN 1 ELSE 0) <= entryLimit
        BY <1>3 DEF KillInv
    <2>2. EntryUnderWay' => EntryUnderWay
        BY <1>1, <1>3, PlaceableStep DEF EntryUnderWay, EntryPlaceable, EntryPermitted
    <2>3. CASE Buys' = Buys
        <3>1. Cardinality(Buys') = Cardinality(Buys)
            BY <2>3
        <3> QED
            BY <1>1, <2>1, <2>2, <3>1
    <2>4. CASE BuyAdded
        <3>1. EntryUnderWay /\ ~EntryUnderWay'
            BY <2>4 DEF BuyAdded, Place, EntryUnderWay
        <3>2. PICK n : Buys' = Buys \cup {n}
            BY <2>4 DEF BuyAdded
        <3>3. /\ Cardinality(Buys \cup {n}) \in Nat
              /\ Cardinality(Buys \cup {n}) <= Cardinality(Buys) + 1
            BY <1>1, OneMore
        <3>4. Cardinality(Buys') = Cardinality(Buys \cup {n})
            BY <3>2
        <3> QED
            BY <1>1, <2>1, <3>1, <3>3, <3>4
    <2> QED
        BY <1>1, <2>3, <2>4, BuysStep DEF BuysKept
<1> QED
    BY <1>2, <1>3 DEF SessionStep

LEMMA KillStep == RecoveryWF /\ KillInv /\ [RecoveryNext]_allVars => KillInv'
<1> SUFFICES ASSUME RecoveryWF, KillInv, [RecoveryNext]_allVars PROVE KillInv'
    OBVIOUS
<1>1. ASSUME Buys' = Buys, EntryUnderWay' => EntryUnderWay, UNCHANGED <<killSwitch, entryLimit>>
      PROVE  KillInv'
    <2>1. Cardinality(Buys') = Cardinality(Buys) /\ Cardinality(Buys) \in Nat /\ entryLimit \in Nat
        BY <1>1, BuysCounted DEF RecoveryWF, WellFormed, FlatWF
    <2> QED
        BY <1>1, <2>1 DEF KillInv
<1>2. CASE FlattenStep
    BY <1>1, <1>2, FlattenBook, FlattenFrame DEF callVars, EntryUnderWay
<1>3. CASE Crash
    BY <1>1, <1>3, RestingBuys DEF Crash, Leave, dbVars, EntryUnderWay
<1>4. CASE Restart
    BY <1>1, <1>4, RestingBuys DEF Restart, GoTo, dbVars, recoveryVars, EntryUnderWay
<1> QED
    BY <1>2, <1>3, <1>4, SessionKill, RecoverySteps

\* After an emergency stop only an entry whose checks were done may still reach
\* the exchange, and no other until the switch is cleared (risk_manager.py:67):
\* with every fault, and however often the process dies and is started again.
THEOREM KillSwitchIsKept == RecoverySpec => []KillSwitchHolds
<1>1. RecoveryInit => KillInv
    BY DEF RecoveryInit, Init, DbInit, KillInv
<1>2. RecoveryWF /\ KillInv => KillSwitchHolds
    BY BuysCounted DEF RecoveryWF, WellFormed, FlatWF, KillInv, KillSwitchHolds
<1> QED
    BY <1>1, <1>2, KillStep, RecoveryWellFormed, PTL DEF RecoverySpec

(***************************************************************************)
(* Unprotected positions.  The halt flag dies with the process; then the   *)
(* reconciliation finds the row, and is not clean.                         *)
(***************************************************************************)
BlockedInv ==
    /\ UnprotectedStaysBlocked
    /\ pc = "savePosition" /\ pos.stop = NoOrder => halted

LEMMA DownStays == ASSUME [Next]_vars, Down PROVE Down'
<1>1. UNCHANGED callVars \/ ~ReceiveCandle
    BY DEF Down, ReceiveCandle, IgnoreCandle, StartCandle
<1>2. ~EngineStep
    BY DEF Down, EngineStep, EntryStep, ExitStep, ExecuteBuy, ExecuteSell, RiskCheck, Place, LookupByTag,
           PollPlaced, QueueSignal, EntryPlaced, EntryRefused, EntryUnanswered, ReadFill, RecordFill,
           StopPlaced, StopFailed, SavePosition, SquareOff, CancelStop, PollCancel, VerifyStop,
           ExitPlaced, ExitFailed, RecordExit
<1> QED
    BY <1>1, <1>2, StepTouches DEF Touches, callVars, Down

\* A reconciliation that finds an unprotected row ends in safe mode.
LEMMA NotClean ==
    ASSUME Reconcile, dbPosition # NoPosition, dbPosition.stop = NoOrder PROVE safeMode'
BY DEF Reconcile, Clean

LEMMA SafeModeStep ==
    ASSUME HasReconciler, [Next]_vars PROVE UNCHANGED safeMode \/ (Reconcile /\ UNCHANGED dbVars)
BY StepTouches DEF Touches, flagVars, Notify, NotifyStaleFeed, NotifyNetworkFailure, NotifyReconnected

LEMMA BlockedStep ==
    ASSUME HasReconciler, RecoveryWF, BlockedInv, [RecoveryNext]_allVars PROVE BlockedInv'
<1> USE DEF BlockedInv, UnprotectedStaysBlocked
<1>1. CASE SessionStep
    <2>1. WellFormed /\ [Next]_vars
        BY <1>1 DEF RecoveryWF, SessionStep
    <2>2. pc' = "savePosition" /\ pos'.stop = NoOrder => halted'
        BY <2>1, UnprotectedSave, HaltedStays
    <2>3. CASE UNCHANGED dbPosition
        <3>1. dbPosition # NoPosition /\ dbPosition.stop = NoOrder => halted' \/ Down' \/ safeMode'
            BY <2>1, <2>3, HaltedStays, DownStays, SafeModeStep, NotClean
        <3> QED
            BY <2>2, <2>3, <3>1
    <2>4. CASE dbPosition' = NoPosition
        BY <2>2, <2>4
    <2>5. CASE SavePosition
        BY <2>1, <2>2, <2>5, HaltedStays DEF SavePosition
    <2> QED
        BY <2>1, <2>3, <2>4, <2>5, RowKeptOrGone
<1>2. CASE FlattenStep
    <2>1. UNCHANGED <<pc, pos, halted, safeMode>>
        BY <1>2, FlattenFrame DEF engineVars, flagVars, callVars
    <2>2. dbPosition' = dbPosition \/ dbPosition' = NoPosition
        BY <1>2 DEF FlattenStep, StartFlatten, FlattenCancelsStop, FlattenPollsStop, FlattenRecordsExit,
               FlattenPlacesExit, FlattenPollsExit, FlattenUpdatesRow, FlattenDeletesPosition, dbVars
    <2> QED
        BY <2>1, <2>2 DEF Down
<1>3. CASE Crash
    BY <1>3 DEF Crash, Leave, Down
<1>4. CASE Restart
    BY <1>4, NotClean DEF Restart, GoTo, dbVars
<1> QED
    BY <1>1, <1>2, <1>3, <1>4, RecoverySteps

\* A position recorded without a stop keeps the engine from trading, also when
\* the restart has cleared its halt flag (reconciliation.py:84), if the engine
\* is built with a Reconciler.
THEOREM UnprotectedKeepsBlocking ==
    ASSUME HasReconciler PROVE RecoverySpec => []UnprotectedStaysBlocked
<1>1. RecoveryInit => BlockedInv
    BY DEF RecoveryInit, Init, DbInit, BlockedInv, UnprotectedStaysBlocked
<1>2. RecoveryWF /\ BlockedInv /\ [RecoveryNext]_allVars => BlockedInv'
    BY BlockedStep
<1>3. BlockedInv => UnprotectedStaysBlocked
    BY DEF BlockedInv
<1> QED
    BY <1>1, <1>2, <1>3, RecoveryWellFormed, PTL DEF RecoverySpec

(***************************************************************************)
(* flatten_all sells once for each filled entry.  What it has sold, what   *)
(* it may still sell for the recorded position, and the fill whose         *)
(* position is still to be recorded, are as many as the entry rows marked  *)
(* COMPLETE: the row is deleted only after the sale, and a fill is         *)
(* recorded as a position once.                                            *)
(***************************************************************************)
FilledEntries == {k \in EntryRows : dbOrders[k].status = "COMPLETE"}

BeforeSale == {"flatCancel", "flatPollCancel", "flatInsert", "flatPlace"}
AfterSale  == {"flatPoll", "flatUpdate", "flatDelete"}

SaleDue == IF uiPc \in BeforeSale \/ (uiPc \notin AfterSale /\ dbPosition # NoPosition)
              THEN 1 ELSE 0
StopDue == IF purpose = "STOP_LOSS" THEN 1 ELSE 0

SalesCovered ==
    ~cutShort => Cardinality(FlattenSales) + SaleDue + StopDue <= Cardinality(FilledEntries)

FlattenInv ==
    /\ SalesCovered
    /\ IsFiniteSet(FilledEntries)
    /\ \A k \in FilledEntries : dbOrders[k].bid # NoOrder
    /\ pc \in {"readFill", "recordFill"} => dbOrders[<<sid, "ENTRY">>].status # "COMPLETE"
    /\ pc = "savePosition" => purpose = "STOP_LOSS"

LEMMA AddBounds ==
    ASSUME NEW a \in Int, NEW b \in Int, NEW c \in Int, NEW d \in Int, a <= c, b <= d
    PROVE  a + b <= c + d /\ a + b <= d + c
OBVIOUS

LEMMA DueTypes == SaleDue \in 0..1 /\ StopDue \in 0..1 /\ SaleDue' \in 0..1 /\ StopDue' \in 0..1
BY DEF SaleDue, StopDue

LEMMA SalesCounted ==
    ASSUME ExchangeTypeOK PROVE IsFiniteSet(FlattenSales) /\ Cardinality(FlattenSales) \in Nat
<1>1. Len(book) \in Nat /\ FlattenSales \subseteq 1..Len(book)
    BY DEF ExchangeTypeOK, FlattenSales
<1>2. IsFiniteSet(1..Len(book))
    BY <1>1, FS_Interval
<1> QED
    BY <1>1, <1>2, FS_Subset, FS_CardinalityType

LEMMA FewerCovered ==
    ASSUME NEW s \in Int, NEW a \in Int, NEW b \in Int, NEW f \in Int,
           NEW s2 \in Int, NEW a2 \in Int, NEW b2 \in Int, NEW f2 \in Int,
           s2 <= s, f <= f2, a2 + b2 <= a + b, s + a + b <= f
    PROVE  s2 + a2 + b2 <= f2
OBVIOUS

\* What must hold of a step for the count to stay covered.
LEMMA StaysCovered ==
    ASSUME RecoveryWF, FlattenInv, cutShort => cutShort',
           FlattenSales' \subseteq FlattenSales, FilledEntries \subseteq FilledEntries',
           IsFiniteSet(FilledEntries'),
           cutShort' \/ SaleDue' + StopDue' <= SaleDue + StopDue
    PROVE  SalesCovered'
<1>1. /\ Cardinality(FlattenSales') \in Nat /\ Cardinality(FlattenSales) \in Nat
      /\ Cardinality(FlattenSales') <= Cardinality(FlattenSales)
    BY SalesCounted, FS_Subset, FS_CardinalityType DEF RecoveryWF, WellFormed
<1>2. /\ Cardinality(FilledEntries') \in Nat /\ Cardinality(FilledEntries) \in Nat
      /\ Cardinality(FilledEntries) <= Cardinality(FilledEntries')
    BY FS_Subset, FS_CardinalityType DEF FlattenInv
<1>3. CASE cutShort'
    BY <1>3 DEF SalesCovered
<1>4. CASE ~cutShort'
    <2>1. ~cutShort /\ SaleDue' + StopDue' <= SaleDue + StopDue
        BY <1>4
    <2>2. Cardinality(FlattenSales) + SaleDue + StopDue <= Cardinality(FilledEntries)
        BY <2>1 DEF FlattenInv, SalesCovered
    <2>3. /\ SaleDue \in Int /\ StopDue \in Int /\ SaleDue' \in Int /\ StopDue' \in Int
          /\ Cardinality(FlattenSales) \in Int /\ Cardinality(FlattenSales') \in Int
          /\ Cardinality(FilledEntries) \in Int /\ Cardinality(FilledEntries') \in Int
        BY <1>1, <1>2, DueTypes
    <2>4. Cardinality(FlattenSales') + SaleDue' + StopDue' <= Cardinality(FilledEntries')
        BY <1>1, <1>2, <2>1, <2>2, <2>3, FewerCovered, Zenon
    <2> QED
        BY <2>4 DEF SalesCovered
<1> QED
    BY <1>3, <1>4

LEMMA SettledSales ==
    ASSUME ExchangeTypeOK, SettlesOne PROVE FlattenSales' \subseteq FlattenSales
<1>1. PICK i \in DOMAIN book, s \in {"COMPLETE", "CANCELLED"}, f \in Nat : Settles(i, s, f)
    BY DEF SettlesOne
<1>2. /\ DOMAIN book' = DOMAIN book
      /\ \A j \in DOMAIN book : book'[j].tag = book[j].tag /\ (j # i => book'[j] = book[j])
    BY <1>1, SettlesKeeps DEF Kept
<1>3. book[i].status # "REJECTED"
    BY <1>1 DEF Settles
<1> QED
    BY <1>2, <1>3 DEF FlattenSales

\* The session's orders carry the tag of a signal.
LEMMA SessionSales ==
    ASSUME WellFormed, [Next]_vars PROVE FlattenSales' \subseteq FlattenSales
<1>1. CASE UNCHANGED exchangeVars
    BY <1>1 DEF exchangeVars, FlattenSales
<1>2. CASE SettlesOne
    BY <1>2, SettledSales DEF WellFormed
<1>3. CASE Accepts
    <2> DEFINE n == Len(book) + 1
    <2>1. /\ DOMAIN book' = DOMAIN book \cup {n} /\ book'[n].tag = sid
          /\ \A j \in DOMAIN book : book'[j] = book[j]
        BY <1>3, AcceptsEffect
    <2>2. sid # NoSignal
        BY <1>3 DEF Accepts, Place, WellFormed, CallWF, InCall, Resting, SignalIds, NoSignal
    <2> HIDE DEF n
    <2> QED
        BY <2>1, <2>2 DEF FlattenSales
<1> QED
    BY <1>1, <1>2, <1>3, ExchangeKinds

\* An entry row becomes COMPLETE when its own handler records the fill.
LEMMA FilledStep ==
    ASSUME WellFormed, EntryCallInv, [Next]_vars
    PROVE  /\ FilledEntries \subseteq FilledEntries'
           /\ \A k \in FilledEntries' :
                 \/ k \in FilledEntries /\ dbOrders'[k].bid = dbOrders[k].bid
                 \/ pc = "recordFill" /\ k = <<sid, "ENTRY">>
<1>1. FilledEntries \subseteq FilledEntries'
    <2>1. \A k \in DOMAIN dbOrders : dbOrders[k].status = "COMPLETE" =>
             k \in DOMAIN dbOrders' /\ dbOrders'[k].status = "COMPLETE"
        BY TerminalRowsStep DEF TerminalRowsStay, TerminalStatuses
    <2> QED
        BY <2>1 DEF FilledEntries, EntryRows
<1>2. ASSUME NEW k \in FilledEntries'
      PROVE  \/ k \in FilledEntries /\ dbOrders'[k].bid = dbOrders[k].bid
             \/ pc = "recordFill" /\ k = <<sid, "ENTRY">>
    <2>1. k \in EntryRows' /\ dbOrders'[k].status = "COMPLETE"
        BY <1>2 DEF FilledEntries
    <2> QED
        BY <2>1, EntryRowsFrom DEF EntryRowFrom, FilledEntries
<1> QED
    BY <1>1, <1>2

FillBooked == RecordFill /\ UpdateOrder(<<sid, "ENTRY">>, "COMPLETE")

\* A handler turns to its stop order when it has recorded the fill.
LEMMA StopDueStep ==
    ASSUME [Next]_vars, purpose' = "STOP_LOSS"
    PROVE  purpose = "STOP_LOSS" \/ FillBooked
<1> USE DEF GoTo, Leave
<1>1. CASE UNCHANGED callVars
    BY <1>1 DEF callVars
<1>2. CASE ReceiveCandle
    BY <1>2 DEF ReceiveCandle, IgnoreCandle, StartCandle, callVars
<1>3. CASE RecordFill
    BY <1>3 DEF RecordFill, FillBooked
<1>4. CASE ExecuteBuy \/ ExecuteSell \/ RiskCheck \/ Place \/ LookupByTag \/ PollPlaced \/ QueueSignal
    BY <1>4 DEF ExecuteBuy, ExecuteSell, RiskCheck, Place, LookupByTag, PollPlaced, QueueSignal
<1>5. CASE EntryPlaced \/ EntryRefused \/ EntryUnanswered \/ ReadFill \/ StopPlaced \/ StopFailed
              \/ SavePosition
    BY <1>5 DEF EntryPlaced, EntryRefused, EntryUnanswered, ReadFill, StopPlaced, StopFailed,
                SavePosition
<1>6. CASE ExitStep
    BY <1>6 DEF ExitStep, SquareOff, CancelStop, PollCancel, VerifyStop, ExitPlaced, ExitFailed,
                RecordExit
<1> QED
    BY <1>1, <1>2, <1>3, <1>4, <1>5, <1>6, StepTouches DEF Touches, EngineStep, EntryStep

\* A position is saved after its stop was tried, and then nothing is due for it.
LEMMA DueStep ==
    ASSUME WellFormed, FlattenInv, [Next]_vars, ~FillBooked
    PROVE  SaleDue' + StopDue' <= SaleDue + StopDue
<1>1. StopDue' <= StopDue
    BY StopDueStep DEF StopDue
<1>2. SaleDue \in Int /\ StopDue \in Int /\ SaleDue' \in Int /\ StopDue' \in Int
    BY DueTypes
<1>3. uiPc' = uiPc \/ {uiPc, uiPc'} \cap (BeforeSale \cup AfterSale) = {}
    BY UiMoves DEF UiLocations, BeforeSale, AfterSale
<1>4. CASE UNCHANGED dbPosition \/ dbPosition' = NoPosition
    <2>1. SaleDue' <= SaleDue
        BY <1>3, <1>4 DEF SaleDue
    <2> QED
        BY <1>1, <2>1, <1>2, AddBounds, Zenon
<1>5. CASE SavePosition
    <2>1. StopDue = 1 /\ StopDue' = 0
        BY <1>5 DEF SavePosition, Leave, FlattenInv, StopDue
    <2>2. SaleDue' <= StopDue /\ StopDue' <= SaleDue
        BY <2>1, DueTypes
    <2> QED
        BY <2>2, <1>2, AddBounds, Zenon
<1> QED
    BY <1>4, <1>5, RowKeptOrGone

\* The two control points that the count depends on.
LEMMA FillPending ==
    ASSUME WellFormed, EntryCallInv, FlattenInv, [Next]_vars, pc' \in {"readFill", "recordFill"}
    PROVE  dbOrders'[<<sid', "ENTRY">>].status # "COMPLETE"
<1>1. CASE EntryPlaced
    BY <1>1 DEF EntryPlaced, InsertOrder, GoTo, Leave
<1>2. \/ pc \in {"readFill", "recordFill"} /\ sid' = sid /\ (pc' = "recordFill" => ~RecordFill)
      \/ EntryPlaced
    <2>1. CASE UNCHANGED callVars
        BY <2>1 DEF callVars, RecordFill, Leave
    <2>2. CASE ReadFill
        BY <2>2 DEF ReadFill, RecordFill, Leave
    <2>3. ~(Place \/ LookupByTag \/ PollPlaced)
        BY DEF Place, LookupByTag, PollPlaced, GoTo
    <2> QED
        BY <2>1, <2>2, <2>3, EntryAwaitedStep DEF EntryAwaited
<1>3. CASE pc \in {"readFill", "recordFill"} /\ sid' = sid /\ ~RecordFill
    <2> DEFINE k == <<sid, "ENTRY">>
    <2>1. k \in EntryRows /\ k \in EntryRows' /\ dbOrders[k].status # "COMPLETE"
        BY <1>3, RowKept DEF EntryCallInv, FlattenInv, EntryRows
    <2>2. UNCHANGED dbOrders \/ MarkCancelled
        BY <1>3, StepTouches
        DEF Touches, dbVars, RiskCheck, SavePosition, VerifyStop, PressStop, ClearKillSwitch,
            EntryPlaced, EntryUnanswered, StopPlaced, ExitPlaced, RecordExit
    <2>3. MarkCancelled => dbOrders'[k].status # "COMPLETE"
        <3>1. dbOrders[k] \in OrderRow
            BY <2>1 DEF WellFormed, DbWF, DbTypeOK, EntryRows
        <3> QED
            BY <2>1, <3>1 DEF MarkCancelled, UpdateOrder, EntryRows, OrderRow
    <2> QED
        BY <1>3, <2>1, <2>2, <2>3
<1>4. RecordFill => pc' \in {"place", "idle"}
    BY DEF RecordFill, Leave
<1> QED
    BY <1>1, <1>2, <1>3, <1>4

LEMMA SavingStop ==
    ASSUME [Next]_vars, pc' = "savePosition"
    PROVE  (pc = "savePosition" /\ purpose' = purpose) \/ purpose' = "STOP_LOSS"
<1> USE DEF GoTo, Leave
<1>1. CASE UNCHANGED callVars
    BY <1>1 DEF callVars
<1>2. CASE StopPlaced \/ StopFailed
    BY <1>2 DEF StopPlaced, StopFailed
<1>3. ~ReceiveCandle \/ UNCHANGED callVars
    BY DEF ReceiveCandle, IgnoreCandle, StartCandle, callVars
<1>4. ~(ExecuteBuy \/ ExecuteSell \/ RiskCheck \/ Place \/ LookupByTag \/ PollPlaced \/ QueueSignal)
    BY DEF ExecuteBuy, ExecuteSell, RiskCheck, Place, LookupByTag, PollPlaced, QueueSignal
<1>5. ~(EntryPlaced \/ EntryRefused \/ EntryUnanswered \/ ReadFill \/ RecordFill \/ SavePosition)
    BY DEF EntryPlaced, EntryRefused, EntryUnanswered, ReadFill, RecordFill, SavePosition
<1>6. ~ExitStep
    BY AfterExitType
    DEF ExitStep, SquareOff, CancelStop, PollCancel, VerifyStop, ExitPlaced, ExitFailed, RecordExit
<1> QED
    BY <1>1, <1>2, <1>3, <1>4, <1>5, <1>6, StepTouches DEF Touches, EngineStep, EntryStep

LEMMA FilledFinite ==
    ASSUME WellFormed, EntryCallInv, FlattenInv, [Next]_vars PROVE IsFiniteSet(FilledEntries')
<1>1. FilledEntries' \subseteq FilledEntries \cup {<<sid, "ENTRY">>}
    BY FilledStep
<1>2. IsFiniteSet(FilledEntries \cup {<<sid, "ENTRY">>})
    BY OneMore DEF FlattenInv
<1> QED
    BY <1>1, <1>2, FS_Subset

LEMMA BookedCovered ==
    ASSUME RecoveryWF, EntryCallInv, FlattenInv, [Next]_vars, FillBooked, UNCHANGED cutShort
    PROVE  SalesCovered'
<1> DEFINE key == <<sid, "ENTRY">>
<1>0. WellFormed
    BY DEF RecoveryWF
<1>1. key \in EntryRows /\ key \notin FilledEntries
    BY DEF FillBooked, RecordFill, EntryCallInv, FlattenInv, FilledEntries, EntryRows
<1>2. key \in FilledEntries'
    <2>1. dbOrders[key] \in OrderRow
        BY <1>0, <1>1 DEF WellFormed, DbWF, DbTypeOK, EntryRows
    <2> QED
        BY <1>1, <2>1 DEF FillBooked, UpdateOrder, FilledEntries, EntryRows, OrderRow
<1>3. FilledEntries' = FilledEntries \cup {key}
    BY <1>0, <1>2, FilledStep
<1>4. /\ StopDue = 0 /\ StopDue' = 1
      /\ SaleDue' = SaleDue
    BY DEF FillBooked, RecordFill, UpdateOrder, Leave, EntryCallInv, StopDue, SaleDue, uiVars
<1> HIDE DEF key
<1>5. /\ Cardinality(FilledEntries) \in Nat
      /\ Cardinality(FilledEntries') = Cardinality(FilledEntries) + 1
    <2>1. IsFiniteSet(FilledEntries)
        BY DEF FlattenInv
    <2>2. Cardinality(FilledEntries \cup {key}) = Cardinality(FilledEntries) + 1
        BY <1>1, <2>1, FS_AddElement, Zenon
    <2>3. Cardinality(FilledEntries') = Cardinality(FilledEntries \cup {key})
        BY <1>3
    <2> QED
        BY <2>1, <2>2, <2>3, FS_CardinalityType
<1>6. /\ Cardinality(FlattenSales') \in Nat /\ Cardinality(FlattenSales) \in Nat
      /\ Cardinality(FlattenSales') <= Cardinality(FlattenSales)
    <2>1. FlattenSales' \subseteq FlattenSales
        BY <1>0, SessionSales
    <2> QED
        BY <1>0, <2>1, SalesCounted, FS_Subset, FS_CardinalityType DEF WellFormed
<1> QED
    BY <1>4, <1>5, <1>6, DueTypes DEF FlattenInv, SalesCovered

LEMMA SessionFlatten ==
    ASSUME RecoveryWF, RecordInv, FlattenInv, SessionStep PROVE FlattenInv'
<1>1. WellFormed /\ [Next]_vars /\ EntryCallInv /\ cutShort' = cutShort
    BY DEF RecoveryWF, RecordInv, SessionStep
<1>2. IsFiniteSet(FilledEntries') /\ FilledEntries \subseteq FilledEntries'
    BY <1>1, FilledFinite, FilledStep
<1>3. SalesCovered'
    <2>1. CASE FillBooked
        BY <1>1, <2>1, BookedCovered
    <2>2. CASE ~FillBooked
        BY <1>1, <1>2, <2>2, SessionSales, DueStep, StaysCovered
    <2> QED
        BY <2>1, <2>2
<1>4. ASSUME NEW k \in FilledEntries' PROVE dbOrders'[k].bid # NoOrder
    <2>1. CASE k \in FilledEntries /\ dbOrders'[k].bid = dbOrders[k].bid
        BY <2>1 DEF FlattenInv
    <2>2. CASE pc = "recordFill" /\ k = <<sid, "ENTRY">>
        <3>1. k \in DOMAIN dbOrders /\ dbOrders[k].bid = bid /\ bid \in Buys
            BY <1>1, <2>2 DEF EntryCallInv, EntryOrder
        <3>2. dbOrders'[k].bid = bid
            BY <1>1, <3>1, RowKept
        <3>3. NoOrder \notin Buys
            BY <1>1 DEF WellFormed, ExchangeTypeOK, Buys, NoOrder
        <3> QED
            BY <3>1, <3>2, <3>3
    <2> QED
        BY <1>1, <2>1, <2>2, FilledStep
<1>5. pc' \in {"readFill", "recordFill"} => dbOrders'[<<sid', "ENTRY">>].status # "COMPLETE"
    BY <1>1, FillPending
<1>6. pc' = "savePosition" => purpose' = "STOP_LOSS"
    BY <1>1, SavingStop DEF FlattenInv
<1> QED
    BY <1>2, <1>3, <1>4, <1>5, <1>6 DEF FlattenInv

LEMMA OwnDue ==
    ASSUME FlattenStep
    PROVE  SaleDue' <= SaleDue /\ (FlattenPlacesExit => SaleDue = 1 /\ SaleDue' = 0)
<1> USE DEF SaleDue, BeforeSale, AfterSale
<1>1. CASE StartFlatten \/ FlattenCancelsStop \/ FlattenPollsStop
    BY <1>1 DEF StartFlatten, FlattenCancelsStop, FlattenPollsStop, FlattenPlacesExit, dbVars
<1>2. CASE FlattenRecordsExit \/ FlattenPollsExit \/ FlattenUpdatesRow
    BY <1>2 DEF FlattenRecordsExit, FlattenPollsExit, FlattenUpdatesRow, FlattenPlacesExit, dbVars
<1>3. CASE FlattenDeletesPosition
    BY <1>3 DEF FlattenDeletesPosition, FlattenPlacesExit
<1>4. CASE FlattenPlacesExit
    BY <1>4 DEF FlattenPlacesExit
<1> QED
    BY <1>1, <1>2, <1>3, <1>4 DEF FlattenStep

LEMMA OwnFlatten ==
    ASSUME RecoveryWF, RecordInv, FlattenInv, FlattenStep PROVE FlattenInv'
<1>1. UNCHANGED <<pc, sid, purpose, bid, cutShort>>
    BY FlattenFrame DEF callVars
<1>2. EntryRows' = EntryRows /\ \A k \in EntryRows : dbOrders'[k] = dbOrders[k]
    BY FlattenEntryRows
<1>3. FilledEntries' = FilledEntries /\ \A k \in FilledEntries : dbOrders'[k] = dbOrders[k]
    BY <1>2 DEF FilledEntries
<1>4. StopDue' = StopDue
    BY <1>1 DEF StopDue
<1>5. SalesCovered'
    <2>1. CASE FlattenPlacesExit /\ SellAccepted
        <3> DEFINE n == Len(book) + 1
        <3>1. /\ DOMAIN book' = DOMAIN book \cup {n}
              /\ \A j \in DOMAIN book : book'[j] = book[j]
            BY <2>1, SellEffect
        <3> HIDE DEF n
        <3>2. FlattenSales' \subseteq FlattenSales \cup {n}
            BY <3>1 DEF FlattenSales
        <3>3. /\ IsFiniteSet(FlattenSales \cup {n}) /\ Cardinality(FlattenSales) \in Nat
              /\ Cardinality(FlattenSales \cup {n}) \in Nat
              /\ Cardinality(FlattenSales \cup {n}) <= Cardinality(FlattenSales) + 1
            BY SalesCounted, OneMore DEF RecoveryWF, WellFormed
        <3>4. /\ Cardinality(FlattenSales') \in Nat
              /\ Cardinality(FlattenSales') <= Cardinality(FlattenSales \cup {n})
            BY <3>2, <3>3, FS_Subset, FS_CardinalityType
        <3>5. SaleDue = 1 /\ SaleDue' = 0
            BY <2>1, OwnDue
        <3>6. Cardinality(FilledEntries') = Cardinality(FilledEntries) /\ Cardinality(FilledEntries) \in Nat
            BY <1>3, FS_CardinalityType DEF FlattenInv
        <3> QED
            BY <1>1, <1>4, <3>3, <3>4, <3>5, <3>6, DueTypes DEF FlattenInv, SalesCovered
    <2>2. CASE UNCHANGED exchangeVars \/ StopSettled
        <3>1. FlattenSales' \subseteq FlattenSales
            BY <2>2, SettledSales DEF StopSettled, exchangeVars, FlattenSales, RecoveryWF, WellFormed
        <3>2. SaleDue' + StopDue' <= SaleDue + StopDue
            <4>1. SaleDue \in Int /\ StopDue \in Int /\ SaleDue' \in Int /\ StopDue' \in Int
                BY DueTypes
            <4>2. SaleDue' <= SaleDue /\ StopDue' <= StopDue
                BY <1>4, <4>1, OwnDue
            <4> QED
                BY <4>1, <4>2, AddBounds, Zenon
        <3> QED
            BY <1>1, <1>3, <3>1, <3>2, StaysCovered DEF FlattenInv
    <2> QED
        BY <2>1, <2>2, FlattenExchange
<1>6. pc' \in {"readFill", "recordFill"} => dbOrders'[<<sid', "ENTRY">>].status # "COMPLETE"
    BY <1>1, <1>2 DEF FlattenInv, RecordInv, EntryCallInv, EntryRows
<1> QED
    BY <1>1, <1>3, <1>5, <1>6 DEF FlattenInv

LEMMA FlattenInvStep ==
    ASSUME RecoveryWF, RecordInv, FlattenInv, [RecoveryNext]_allVars PROVE FlattenInv'
<1>1. CASE SessionStep \/ FlattenStep
    BY <1>1, SessionFlatten, OwnFlatten
<1>2. CASE Crash \/ Restart
    <2>1. book' = book /\ UNCHANGED <<dbOrders, dbPosition>> /\ pc' \in {"down", "idle"}
        BY <1>2 DEF Crash, Restart, Leave, GoTo, exchangeVars, dbVars
    <2>2. FlattenSales' = FlattenSales /\ FilledEntries' = FilledEntries
        BY <2>1 DEF FlattenSales, FilledEntries, EntryRows
    <2>3. StopDue' <= StopDue
        BY <1>2 DEF Crash, Restart, Leave, GoTo, StopDue
    <2>4. (cutShort => cutShort') /\ (cutShort' \/ SaleDue' <= SaleDue)
        <3>1. CASE UNCHANGED <<uiPc, cutShort>>
            BY <2>1, <3>1 DEF SaleDue
        <3>2. CASE UiDies /\ cutShort' = (cutShort \/ Flattening)
            <4>1. ~Flattening => SaleDue' <= SaleDue
                BY <2>1, <3>2 DEF UiDies, Flattening, SaleDue, BeforeSale, AfterSale
            <4>2. cutShort \/ Flattening => cutShort'
                BY <3>2, Zenon
            <4> QED
                BY <4>1, <4>2
        <3> QED
            BY <1>2, <3>1, <3>2 DEF Crash, Restart, uiVars, recoveryVars
    <2>5. cutShort' \/ SaleDue' + StopDue' <= SaleDue + StopDue
        <3>1. SaleDue \in Int /\ StopDue \in Int /\ SaleDue' \in Int /\ StopDue' \in Int
            BY DueTypes
        <3> QED
            BY <2>3, <2>4, <3>1, AddBounds, Zenon
    <2>6. SalesCovered'
        BY <2>2, <2>4, <2>5, StaysCovered DEF FlattenInv
    <2> QED
        BY <2>1, <2>2, <2>6 DEF FlattenInv, FilledEntries
<1> QED
    BY <1>1, <1>2, RecoverySteps

\* The buy orders the COMPLETE entry rows name are filled, and different.
LEMMA FilledBought ==
    ASSUME RecoveryWF, RecordInv, FlattenInv
    PROVE  /\ Cardinality(FilledEntries) <= Cardinality(Bought)
           /\ Cardinality(FilledEntries) \in Nat /\ Cardinality(Bought) \in Nat
<1> DEFINE order == [k \in FilledEntries |-> dbOrders[k].bid]
<1>1. order \in Injection(FilledEntries, Bought)
    <2>1. ASSUME NEW k \in FilledEntries
          PROVE  order[k] \in Bought /\ book[order[k]].tag = k[1]
        BY <2>1 DEF FlattenInv, RecordInv, EntryRowsNameTheirOrder, FilledEntries, Bought
    <2>2. ASSUME NEW k \in FilledEntries, NEW l \in FilledEntries, order[k] = order[l]
          PROVE  k = l
        <3>1. k[1] = l[1] /\ k[2] = l[2]
            BY <2>1, <2>2 DEF FilledEntries, EntryRows
        <3>2. k \in OrderKeys /\ l \in OrderKeys
            BY DEF RecoveryWF, WellFormed, DbWF, DbTypeOK, FilledEntries, EntryRows
        <3> QED
            BY <3>1, <3>2 DEF OrderKeys
    <2> QED
        BY <2>1, <2>2 DEF Injection, IsInjective
<1> HIDE DEF order
<1>2. IsFiniteSet(Bought)
    BY BuysCounted, FS_Subset DEF Bought, RecoveryWF, WellFormed
<1>3. IsFiniteSet(FilledEntries)
    BY DEF FlattenInv
<1> QED
    BY <1>1, <1>2, <1>3, FS_Injection, FS_CardinalityType

LEMMA FlattenInvInit == RecoveryInit => FlattenInv
<1> SUFFICES ASSUME RecoveryInit PROVE FlattenInv
    OBVIOUS
<1>1. FlattenSales = {} /\ FilledEntries = {}
    BY DEF RecoveryInit, Init, DbInit, FlattenSales, FilledEntries, EntryRows
<1>2. Cardinality(FlattenSales) = 0 /\ Cardinality(FilledEntries) = 0 /\ IsFiniteSet(FilledEntries)
    BY <1>1, FS_EmptySet
<1>3. SaleDue = 0 /\ StopDue = 0
    BY DEF RecoveryInit, Init, DbInit, SaleDue, StopDue, BeforeSale
<1> QED
    BY <1>1, <1>2, <1>3 DEF RecoveryInit, Init, FlattenInv, SalesCovered

\* flatten_all sells for a recorded position once (emergency_stop.py:100), so it
\* never sells more often than an entry was filled, whatever fails on the way
\* and however often it is called; a crash in its middle excepted.
THEOREM FlattensAreOnce == RecoverySpec => []FlattensOnce
<1>1. RecoveryWF /\ RecoveryRecords /\ FlattenInv => FlattensOnce
    <2> SUFFICES ASSUME RecoveryWF, RecoveryRecords, FlattenInv PROVE FlattensOnce
        OBVIOUS
    <2>1. Cardinality(FlattenSales) \in Nat
        BY SalesCounted DEF RecoveryWF, WellFormed
    <2>2. /\ Cardinality(FilledEntries) <= Cardinality(Bought)
          /\ Cardinality(FilledEntries) \in Nat /\ Cardinality(Bought) \in Nat
        BY FilledBought DEF RecoveryRecords
    <2> QED
        BY <2>1, <2>2, DueTypes DEF FlattenInv, SalesCovered, FlattensOnce
<1>2. RecoveryWF /\ RecoveryRecords /\ FlattenInv /\ [RecoveryNext]_allVars => FlattenInv'
    BY FlattenInvStep DEF RecoveryRecords
<1> QED
    BY <1>1, <1>2, FlattenInvInit, RecoveryRecordsHold, PTL DEF RecoverySpec

(***************************************************************************)
(* One lot.  A buy that was open when the process died is known to no row, *)
(* for a row is written only once its order is polled, and a poll that     *)
(* does not time out returns no open order.  So the reconciliation of the  *)
(* restarted process finds an order it does not know, and the engine waits *)
(* in safe mode while the buy is open.                                     *)
(***************************************************************************)
Quiet == Down \/ (safeMode /\ pc = "idle")

PolledNotOpen ==
    /\ \A k \in DOMAIN dbOrders : dbOrders[k].bid \notin OpenBuys
    /\ pc = "placed" => bid \notin OpenBuys
    /\ uiPc = "flatUpdate" => flatBid \notin OpenBuys

RecoveryLotInv ==
    /\ LotBase
    /\ PolledNotOpen
    /\ OpenBuys # {} => brokerHalted \/ BuyAwaited \/ Quiet

\* NoHiddenOrder, and no poll that gives up on an order that is still open.
NothingHidden == {"unexpected", "positions", "interim"} \cap Faults = {}

\* A buy is open because it was, or because it is new.
LEMMA OpenFrom ==
    ASSUME WellFormed, LotBase, [Next]_vars, NEW x \in OpenBuys'
    PROVE  x \in OpenBuys \/ x \notin Known
<1>1. CASE UNCHANGED exchangeVars
    BY <1>1 DEF exchangeVars, OpenBuys, Buys
<1>2. CASE SettlesOne
    BY <1>2, SettleLot DEF WellFormed, LotBase
<1>3. CASE Accepts
    <2> DEFINE n == Len(book) + 1
    <2>1. /\ DOMAIN book' = DOMAIN book \cup {n}
          /\ \A j \in DOMAIN book : book'[j] = book[j]
        BY <1>3, AcceptsEffect
    <2>2. n \notin Known
        BY DEF WellFormed, ExchangeTypeOK, Known
    <2> HIDE DEF n
    <2> QED
        BY <2>1, <2>2 DEF OpenBuys, Buys
<1> QED
    BY <1>1, <1>2, <1>3, ExchangeKinds

\* A row gets its id when it is inserted, after the poll.
LEMMA RowBid ==
    ASSUME WellFormed, [Next]_vars, NEW k \in DOMAIN dbOrders'
    PROVE  \/ k \in DOMAIN dbOrders /\ dbOrders'[k].bid = dbOrders[k].bid
           \/ dbOrders'[k].bid = NoOrder
           \/ pc = "placed" /\ dbOrders'[k].bid = bid
<1>1. CASE k \in DOMAIN dbOrders
    BY <1>1, RowKept
<1>2. ASSUME NEW key, NEW s, NEW i, InsertOrder(key, s, i), k \notin DOMAIN dbOrders
      PROVE  dbOrders'[k].bid = i
    BY <1>2 DEF InsertOrder
<1>3. CASE EntryPlaced \/ StopPlaced \/ ExitPlaced
    BY <1>1, <1>2, <1>3 DEF EntryPlaced, StopPlaced, ExitPlaced, InsertFails
<1>4. CASE EntryUnanswered
    BY <1>1, <1>2, <1>4 DEF EntryUnanswered, InsertFails
<1>5. CASE RecordFill \/ RecordExit \/ MarkCancelled
    BY <1>1, <1>5 DEF RecordFill, RecordExit, MarkCancelled, UpdateOrder
<1>6. CASE UNCHANGED dbOrders
    BY <1>1, <1>6
<1> QED
    BY <1>3, <1>4, <1>5, <1>6, StepTouches
    DEF Touches, dbVars, RiskCheck, SavePosition, VerifyStop, PressStop, ClearKillSwitch

LEMMA PolledIsNotOpen ==
    ASSUME "interim" \notin Faults, NEW i, Poll(i) PROVE i \notin OpenBuys'
<1>1. PollSettles(i) /\ book' = book
    BY DEF Poll, PollTimesOut, PollSettles, exchangeVars
<1>2. MapKiteStatus("OPEN") \notin TerminalStatuses \cup {"TRIGGER_PENDING"}
    BY DEF MapKiteStatus, StatusMap, TerminalStatuses
<1> QED
    BY <1>1, <1>2 DEF PollSettles, OpenBuys, Buys

LEMMA OpenKnown ==
    ASSUME WellFormed
    PROVE  /\ \A k \in DOMAIN dbOrders : dbOrders[k].bid \in Known
           /\ NoOrder \in Known /\ bid \in Known /\ NoOrder \notin OpenBuys
<1>1. OpenBuys \subseteq DOMAIN book /\ NoOrder \notin DOMAIN book
    BY DEF OpenBuys, Buys, WellFormed, ExchangeTypeOK, NoOrder
<1> QED
    BY <1>1, NoOrderKnown DEF WellFormed, DbWF, CallWF

LEMMA ToPlaced ==
    ASSUME WellFormed, [Next]_vars, pc' = "placed"
    PROVE  (pc = "placed" /\ bid' = bid) \/ (Poll(bid) /\ bid' = bid)
<1> USE DEF GoTo, Leave
<1>1. CASE UNCHANGED callVars
    BY <1>1 DEF callVars
<1>2. CASE ReceiveCandle
    BY <1>1, <1>2 DEF ReceiveCandle, IgnoreCandle, StartCandle
<1>3. CASE PollPlaced
    BY <1>3 DEF PollPlaced
<1>4. ~(ExecuteBuy \/ ExecuteSell \/ RiskCheck \/ Place \/ LookupByTag \/ QueueSignal)
    BY DEF ExecuteBuy, ExecuteSell, RiskCheck, Place, LookupByTag, QueueSignal
<1>5. ~EntryStep
    BY DEF EntryStep, EntryPlaced, EntryRefused, EntryUnanswered, ReadFill, RecordFill, StopPlaced,
           StopFailed, SavePosition
<1>6. ~ExitStep
    BY AfterExitType DEF ExitStep, SquareOff, CancelStop, PollCancel, VerifyStop, ExitPlaced,
                         ExitFailed, RecordExit
<1> QED
    BY <1>1, <1>2, <1>3, <1>4, <1>5, <1>6, StepTouches DEF Touches, EngineStep

LEMMA SessionPolled ==
    ASSUME NothingHidden, RecoveryWF, LotBase, PolledNotOpen, SessionStep PROVE PolledNotOpen'
<1> USE DEF PolledNotOpen
<1>1. WellFormed /\ [Next]_vars /\ UNCHANGED flatBid /\ flatBid \in Known
    BY DEF RecoveryWF, FlatWF, SessionStep, flatVars
<1>2. \A x \in OpenBuys' : x \in OpenBuys \/ x \notin Known
    BY <1>1, OpenFrom
<1>3. /\ \A k \in DOMAIN dbOrders : dbOrders[k].bid \in Known
      /\ NoOrder \in Known /\ bid \in Known /\ NoOrder \notin OpenBuys
    BY <1>1, OpenKnown
<1>4. ASSUME NEW k \in DOMAIN dbOrders' PROVE dbOrders'[k].bid \notin OpenBuys'
    BY <1>1, <1>2, <1>3, RowBid
<1>5. pc' = "placed" => bid' \notin OpenBuys'
    BY <1>1, <1>2, <1>3, ToPlaced, PolledIsNotOpen DEF NothingHidden
<1>6. uiPc' = "flatUpdate" => flatBid' \notin OpenBuys'
    BY <1>1, <1>2, UiMoves DEF UiLocations
<1> QED
    BY <1>4, <1>5, <1>6

\* A reconciliation that finds an order without a row ends in safe mode.
LEMMA UnknownOrder ==
    ASSUME Reconcile, NEW x \in DOMAIN book, \A k \in DOMAIN dbOrders : dbOrders[k].bid # x
    PROVE  safeMode'
<1>1. x \notin {dbOrders[k].bid : k \in DOMAIN dbOrders}
    OBVIOUS
<1> QED
    BY <1>1 DEF Reconcile, Clean

\* In safe mode every candle is ignored.
LEMMA SafeModeIgnores ==
    ASSUME [Next]_vars, safeMode, pc = "idle" PROVE pc' = "idle"
<1>1. UNCHANGED callVars \/ ~ReceiveCandle
    BY DEF ReceiveCandle, IgnoreCandle, StartCandle
<1>2. ~EngineStep
    BY DEF EngineStep, EntryStep, ExitStep, ExecuteBuy, ExecuteSell, RiskCheck, Place, LookupByTag,
           PollPlaced, QueueSignal, EntryPlaced, EntryRefused, EntryUnanswered, ReadFill, RecordFill,
           StopPlaced, StopFailed, SavePosition, SquareOff, CancelStop, PollCancel, VerifyStop,
           ExitPlaced, ExitFailed, RecordExit
<1> QED
    BY <1>1, <1>2, StepTouches DEF Touches, callVars

LEMMA QuietStep ==
    ASSUME HasReconciler, [Next]_vars, PolledNotOpen, OpenBuys # {}, Quiet PROVE Quiet'
<1>1. PICK x \in DOMAIN book : \A k \in DOMAIN dbOrders : dbOrders[k].bid # x
    BY DEF PolledNotOpen, OpenBuys, Buys
<1>2. safeMode => safeMode'
    BY <1>1, SafeModeStep, UnknownOrder
<1> QED
    BY <1>2, DownStays, SafeModeIgnores DEF Quiet

LEMMA SessionLot ==
    ASSUME NothingHidden, HasReconciler, RecoveryWF, TagInv, RecoveryLotInv, SessionStep
    PROVE  RecoveryLotInv'
<1>1. WellFormed /\ [Next]_vars /\ NoHiddenOrder /\ LotBase
    BY DEF RecoveryWF, SessionStep, NothingHidden, NoHiddenOrder, RecoveryLotInv
<1>2. OneLot' /\ BuysNeverRest'
    BY <1>1, LotStep
<1>3. PolledNotOpen'
    BY SessionPolled DEF RecoveryLotInv
<1>4. OpenBuys' # {} => brokerHalted' \/ BuyAwaited' \/ Quiet'
    BY <1>1, LotStep, AwaitStep, BrokerHaltStays, QuietStep DEF RecoveryLotInv
<1>5. EntryComing' => brokerHalted' \/ OpenBuys' = {}
    BY <1>4 DEF EntryComing, BuyAwaited, Quiet, Down
<1>6. pc' = "risk" \/ (pc' = "place" /\ purpose' = "ENTRY") => brokerHalted' \/ net' <= 0
    BY <1>1, FlatStep
<1> QED
    BY <1>2, <1>3, <1>4, <1>5, <1>6 DEF RecoveryLotInv, LotBase, EntryAlone

\* flatten_all opens no buy.
LEMMA FlattenBuys ==
    ASSUME RecoveryWF, LotBase, FlattenStep
    PROVE  /\ OneLot' /\ BuysNeverRest'
           /\ OpenBuys' \subseteq OpenBuys
           /\ OpenBuys = {} => net' <= net
<1>1. ExchangeTypeOK /\ OneLot /\ BuysNeverRest /\ net \in Int
    BY DEF RecoveryWF, WellFormed, LotBase, ExchangeTypeOK
<1>2. CASE UNCHANGED exchangeVars
    <2>1. book' = book /\ net' = net
        BY <1>2 DEF exchangeVars
    <2>2. Buys' = Buys
        BY <2>1 DEF Buys
    <2>3. OpenBuys' = OpenBuys
        BY <2>1, <2>2 DEF OpenBuys
    <2>4. OneLot' /\ BuysNeverRest'
        BY <1>1, <2>1, <2>2, <2>3 DEF OneLot, BuysNeverRest
    <2>5. net' <= net
        BY <1>1, <2>1
    <2> QED
        BY <2>3, <2>4, <2>5
<1>3. CASE StopSettled
    BY <1>1, <1>3, SettleLot DEF StopSettled
<1>4. CASE SellAccepted
    <2>1. /\ \A j \in DOMAIN book : book'[j] = book[j]
          /\ net' = net
        BY <1>4, SellEffect
    <2>2. Buys' = Buys /\ Buys \subseteq DOMAIN book
        BY FlattenBook DEF Buys
    <2>3. OpenBuys' = OpenBuys /\ OpenBuys \subseteq DOMAIN book
        BY <2>1, <2>2 DEF OpenBuys
    <2>4. OneLot'
        BY <1>1, <2>1, <2>3 DEF OneLot
    <2>5. BuysNeverRest'
        BY <1>1, <2>1, <2>2 DEF BuysNeverRest
    <2>6. net' <= net
        BY <1>1, <2>1
    <2> QED
        BY <2>3, <2>4, <2>5, <2>6
<1> QED
    BY <1>2, <1>3, <1>4, FlattenExchange

LEMMA FlattenPolled ==
    ASSUME NothingHidden, RecoveryWF, LotBase, PolledNotOpen, FlattenStep PROVE PolledNotOpen'
<1> USE DEF PolledNotOpen
<1>1. OpenBuys' \subseteq OpenBuys /\ NoOrder \notin OpenBuys
    BY FlattenBuys, OpenKnown DEF RecoveryWF
<1>2. ASSUME NEW k \in DOMAIN dbOrders' PROVE dbOrders'[k].bid \notin OpenBuys'
    BY <1>1, FlattenRows DEF FlattenUpdatesRow
<1>3. pc' = "placed" => bid' \notin OpenBuys'
    BY <1>1, FlattenFrame DEF callVars
<1>4. uiPc' = "flatUpdate" => flatBid' \notin OpenBuys'
    <2>1. uiPc' = "flatUpdate" => FlattenPollsExit
        BY DEF FlattenStep, StartFlatten, FlattenCancelsStop, FlattenPollsStop, FlattenRecordsExit,
               FlattenPlacesExit, FlattenUpdatesRow, FlattenDeletesPosition
    <2>2. FlattenPollsExit => flatBid \notin OpenBuys' /\ flatBid' = flatBid
        BY PolledIsNotOpen DEF FlattenPollsExit, NothingHidden, flatVars
    <2> QED
        BY <2>1, <2>2
<1> QED
    BY <1>2, <1>3, <1>4

LEMMA FlattenKeepsHalt == ASSUME FlattenStep PROVE brokerHalted => brokerHalted'
BY DEF FlattenStep, StartFlatten, FlattenCancelsStop, FlattenPollsStop, FlattenRecordsExit,
       FlattenPlacesExit, FlattenPollsExit, FlattenUpdatesRow, FlattenDeletesPosition, kiteVars,
       RequestCancel, Poll, PollSettles, PollTimesOut, PlaceAccepted, PlaceRefused

LEMMA FlattenLot ==
    ASSUME NothingHidden, RecoveryWF, RecoveryLotInv, FlattenStep PROVE RecoveryLotInv'
<1>1. /\ OneLot' /\ BuysNeverRest'
      /\ OpenBuys' \subseteq OpenBuys
      /\ OpenBuys = {} => net' <= net
    BY FlattenBuys DEF RecoveryLotInv
<1>2. UNCHANGED <<pc, sid, purpose, bid, safeMode>> /\ (brokerHalted => brokerHalted')
    BY FlattenFrame, FlattenKeepsHalt DEF callVars, flagVars
<1>3. PolledNotOpen'
    BY FlattenPolled DEF RecoveryLotInv
<1>4. ASSUME BuyAwaited, OpenBuys' # {} PROVE BuyAwaited'
    <2>1. OpenBuys' = OpenBuys
        BY <1>1, <1>4 DEF BuyAwaited
    <2>2. CASE pc = "poll"
        BY <1>2, <1>4, <2>1, <2>2 DEF BuyAwaited
    <2>3. CASE pc = "lookup" /\ purpose = "ENTRY"
        <3>1. PICK n \in OpenBuys : /\ OpenBuys = {n}
                                    /\ \A j \in DOMAIN book : book[j].tag = sid => j = n
            BY <1>4, <2>3 DEF BuyAwaited
        <3>2. sid # NoSignal
            BY <2>3 DEF RecoveryWF, WellFormed, CallWF, InCall, Resting, SignalIds, NoSignal
        <3>3. \A j \in DOMAIN book' : book'[j].tag = sid => j = n
            BY <3>1, <3>2, FlattenBook DEF Kept
        <3> QED
            BY <1>2, <2>1, <2>3, <3>1, <3>3 DEF BuyAwaited
    <2> QED
        BY <1>4, <2>2, <2>3 DEF BuyAwaited
<1>5. OpenBuys' # {} => brokerHalted' \/ BuyAwaited' \/ Quiet'
    BY <1>1, <1>2, <1>4 DEF RecoveryLotInv, Quiet, Down
<1>6. EntryComing' => EntryComing /\ (brokerHalted' \/ OpenBuys = {})
    BY <1>2 DEF EntryComing, RecoveryLotInv, LotBase, EntryAlone
<1>7. pc' = "risk" \/ (pc' = "place" /\ purpose' = "ENTRY") => brokerHalted' \/ net' <= 0
    <2>1. net \in Int /\ net' \in Int
        BY FlattenBook DEF RecoveryWF, WellFormed, ExchangeTypeOK
    <2> QED
        BY <1>1, <1>2, <1>6, <2>1 DEF EntryComing, RecoveryLotInv, LotBase, EntryAlone
<1> QED
    BY <1>1, <1>3, <1>5, <1>6, <1>7 DEF RecoveryLotInv, LotBase, EntryAlone

LEMMA CrashLot ==
    ASSUME HasReconciler, RecoveryWF, RecoveryLotInv, Crash \/ Restart PROVE RecoveryLotInv'
<1>1. Buys' = Buys /\ book' = book /\ net' = net /\ OpenBuys' = OpenBuys
    BY RestingBuys DEF OpenBuys
<1>2. UNCHANGED dbOrders /\ (uiPc' = "flatUpdate" => uiPc = "flatUpdate" /\ UNCHANGED flatBid)
    BY DEF Crash, Restart, UiDies, dbVars, uiVars, flatVars, recoveryVars
<1>3. pc' \in Resting
    BY DEF Crash, Restart, Leave, GoTo, Resting
<1>4. LotBase'
    BY <1>1, <1>3 DEF RecoveryLotInv, LotBase, OneLot, BuysNeverRest, EntryAlone, EntryComing, Resting
<1>5. PolledNotOpen'
    BY <1>1, <1>2, <1>3 DEF RecoveryLotInv, PolledNotOpen, Resting
<1>6. OpenBuys' # {} => Quiet'
    <2>1. CASE Crash
        BY <2>1 DEF Crash, Leave, Quiet, Down
    <2>2. CASE Restart
        <3> SUFFICES ASSUME OpenBuys # {} PROVE safeMode' /\ pc' = "idle"
            BY <1>1 DEF Quiet
        <3>1. PICK x \in DOMAIN book : \A k \in DOMAIN dbOrders : dbOrders[k].bid # x
            BY DEF RecoveryLotInv, PolledNotOpen, OpenBuys, Buys
        <3> QED
            BY <2>2, <3>1, UnknownOrder DEF Restart, GoTo
    <2> QED
        BY <2>1, <2>2
<1> QED
    BY <1>4, <1>5, <1>6 DEF RecoveryLotInv

\* One position at a time (README.md:58), also when the process dies at any
\* point of an entry and starts again (docs/MASTER_PLAN.md:97), and while the user
\* flattens: with a reconciliation at every restart, and no poll that gives up.
THEOREM OneLotForAll == ASSUME NothingHidden, HasReconciler PROVE RecoverySpec => []OneLot
<1>1. RecoveryInit => RecoveryLotInv
    <2> SUFFICES ASSUME RecoveryInit PROVE RecoveryLotInv
        OBVIOUS
    <2>1. LotBase /\ OpenBuys = {} /\ pc = "idle" /\ uiPc = "ready"
        BY LotAndTagsInit DEF RecoveryInit, LotAndTags, LotInv, Init, OpenBuys, Buys
    <2> QED
        BY <2>1 DEF RecoveryLotInv, PolledNotOpen
<1>2. RecoveryLotInv => OneLot
    BY DEF RecoveryLotInv, LotBase
<1>3. RecoveryWF /\ RecoveryRecords /\ RecoveryLotInv /\ [RecoveryNext]_allVars => RecoveryLotInv'
    <2> SUFFICES ASSUME RecoveryWF, RecoveryRecords, RecoveryLotInv, [RecoveryNext]_allVars
                 PROVE  RecoveryLotInv'
        OBVIOUS
    <2>1. TagInv
        BY DEF RecoveryRecords, RecordInv
    <2> QED
        BY <2>1, SessionLot, FlattenLot, CrashLot, RecoverySteps
<1> QED
    BY <1>1, <1>2, <1>3, RecoveryRecordsHold, PTL DEF RecoverySpec

(***************************************************************************)
(* Sales.  flatten_all books nothing: it sells by orders of its own, and   *)
(* cancels no order but a stop.  A crash lets go of the orders in hand.    *)
(***************************************************************************)
FlatSale == flatPos.stop # NoOrder => flatPos.stop \in DOMAIN book \ Buys /\ book[flatPos.stop].stop

RecoverySales == SaleInv /\ FlatSale

LEMMA SessionSale ==
    ASSUME SalesSettle, RecoveryWF, RecoveryWF', RecordInv, RecoverySales, SessionStep
    PROVE  RecoverySales'
<1>1. WellFormed /\ WellFormed' /\ [Next]_vars /\ flatPos' = flatPos
    BY DEF RecoveryWF, SessionStep, flatVars
<1>2. SaleInv'
    BY <1>1, SaleStep DEF RecoverySales
<1>3. FlatSale'
    BY <1>1, OrdersKept DEF RecoverySales, FlatSale, Kept, Buys
<1> QED
    BY <1>2, <1>3 DEF RecoverySales

LEMMA FlattenSale ==
    ASSUME RecoveryWF, RecordInv, RecoverySales, FlattenStep
    PROVE  RecoverySales'
<1>1. /\ SalesWhole /\ StopsRecorded /\ SaleAwaited /\ FlatSale /\ WellFormed
      /\ NoPosition.stop = NoOrder
    BY DEF RecoverySales, SaleInv, RecoveryWF, NoPosition
<1>2. UNCHANGED <<pc, purpose, bid, pos, tradedQty>> /\ DOMAIN orderInfo \subseteq DOMAIN orderInfo'
    BY FlattenFrame, FlattenOrders DEF callVars, RecordInv
<1>3. dbPosition' = dbPosition \/ dbPosition' = NoPosition
    BY DEF FlattenStep, StartFlatten, FlattenCancelsStop, FlattenPollsStop, FlattenRecordsExit,
           FlattenPlacesExit, FlattenPollsExit, FlattenUpdatesRow, FlattenDeletesPosition, dbVars
<1>4. flatPos' \in {flatPos, dbPosition, NoPosition}
    BY DEF FlattenStep, StartFlatten, FlattenCancelsStop, FlattenPollsStop, FlattenRecordsExit,
           FlattenPlacesExit, FlattenPollsExit, FlattenUpdatesRow, FlattenDeletesPosition, flatVars
<1>5. ASSUME NEW i \in DOMAIN book \ Buys
      PROVE  /\ i \in DOMAIN book' \ Buys' /\ book'[i].qty = book[i].qty /\ book'[i].stop = book[i].stop
             /\ book[i].status = "COMPLETE" => book'[i] = book[i]
             /\ \/ book'[i] = book[i]
                \/ book'[i].status = "CANCELLED" /\ book[i].stop
    BY <1>1, FlattenBook DEF Kept, FlatSale
<1>6. SalesWhole'
    <2> SUFFICES ASSUME NEW i \in DOMAIN book' \ Buys', book'[i].status = "COMPLETE"
                 PROVE  book'[i].filled = book'[i].qty
        BY DEF SalesWhole
    <2>1. i \in DOMAIN book \ Buys
        BY FlattenBook DEF Buys
    <2> QED
        BY <1>1, <1>5, <2>1 DEF SalesWhole
<1>7. StopsRecorded' /\ FlatSale'
    <2>1. ASSUME NEW p \in {dbPosition, pos}, p.stop # NoOrder
          PROVE  p.stop \in DOMAIN book' \ Buys' /\ book'[p.stop].qty = p.qty /\ book'[p.stop].stop
        BY <1>1, <1>5, <2>1 DEF StopsRecorded, SellsFor
    <2>2. StopsRecorded'
        BY <1>1, <1>2, <1>3, <2>1 DEF StopsRecorded, SellsFor
    <2>3. flatPos.stop # NoOrder => flatPos.stop \in DOMAIN book' \ Buys' /\ book'[flatPos.stop].stop
        BY <1>1, <1>5 DEF FlatSale
    <2>4. FlatSale'
        BY <1>1, <1>4, <2>1, <2>3 DEF FlatSale
    <2> QED
        BY <2>2, <2>4
<1>8. SaleAwaited'
    <2>1. ASSUME NEW q, SellsFor(bid, q)
          PROVE  /\ bid \in DOMAIN book' \ Buys' /\ book'[bid].qty = q /\ book'[bid].stop = book[bid].stop
                 /\ book[bid].status = "COMPLETE" => book'[bid].status = "COMPLETE"
                 /\ ~book[bid].stop => book'[bid].status = book[bid].status
        BY <1>5, <2>1 DEF SellsFor
    <2> QED
        BY <1>1, <1>2, <2>1 DEF SaleAwaited, Cancelling, SellsFor
<1>9. Backed'
    <2>1. PICK B : Backs(B)
        BY DEF RecoverySales, SaleInv, Backed
    <2>2. /\ B \subseteq DOMAIN book \ Buys /\ \A i \in B : book[i].status = "COMPLETE"
          /\ B \cap {dbPosition.stop, pos.stop, bid} = {}
        BY <2>1 DEF Backs
    <2>3. \A i \in B : i \in DOMAIN book' \ Buys' /\ book'[i] = book[i]
        BY <1>5, <2>2
    <2>4. NoOrder \notin B
        BY <1>1, <2>2, FillsAre DEF NoOrder
    <2>5. B \cap {dbPosition'.stop, pos'.stop, bid'} = {}
        BY <1>1, <1>2, <1>3, <2>2, <2>4
    <2> QED
        BY <1>1, <1>2, <2>1, <2>3, <2>5, BackedKept
<1> QED
    BY <1>6, <1>7, <1>8, <1>9 DEF RecoverySales, SaleInv

LEMMA CrashSale ==
    ASSUME RecoveryWF, RecoverySales, Crash \/ Restart PROVE RecoverySales'
<1>1. /\ book' = book /\ Buys' = Buys /\ UNCHANGED <<dbPosition, tradedQty>>
      /\ SalesWhole /\ StopsRecorded /\ FlatSale /\ WellFormed
      /\ NoPosition.stop = NoOrder
    BY RestingBuys DEF Crash, Restart, dbVars, RecoverySales, SaleInv, RecoveryWF, NoPosition
<1>2. /\ pc' \in {"down", "idle"}
      /\ (pos' = pos /\ bid' = bid) \/ (pos' = NoPosition /\ bid' = NoOrder)
      /\ flatPos' \in {flatPos, NoPosition}
    BY DEF Crash, Restart, Leave, GoTo, UiDies, flatVars, recoveryVars
<1>3. SalesWhole' /\ StopsRecorded' /\ FlatSale'
    BY <1>1, <1>2 DEF SalesWhole, StopsRecorded, FlatSale, SellsFor
<1>4. SaleAwaited'
    BY <1>2 DEF SaleAwaited, Cancelling
<1>5. Backed'
    <2>1. PICK B : Backs(B)
        BY DEF RecoverySales, SaleInv, Backed
    <2>2. /\ B \subseteq DOMAIN book \ Buys
          /\ B \cap {dbPosition.stop, pos.stop, bid} = {}
        BY <2>1 DEF Backs
    <2>3. NoOrder \notin B
        BY <1>1, <2>2, FillsAre DEF NoOrder
    <2>4. B \cap {dbPosition'.stop, pos'.stop, bid'} = {}
        BY <1>1, <1>2, <2>2, <2>3
    <2> QED
        BY <1>1, <2>1, <2>2, <2>4, BackedKept
<1> QED
    BY <1>3, <1>4, <1>5 DEF RecoverySales, SaleInv

\* A trade in the trades table is a sale the exchange has made, also when the
\* process dies between a sale and its booking, or flatten_all sells beside an
\* exit.  The faults that are excluded are those of SalesAreReal.
THEOREM SalesStayReal ==
    ASSUME SalesSettle PROVE RecoverySpec => []BookedSalesHappened
<1>1. RecoveryInit => RecoverySales
    BY SaleInit DEF RecoveryInit, RecoverySales, FlatSale, NoPosition
<1>2. RecoveryWF /\ RecoverySales => BookedSalesHappened
    BY BackedSalesHappened DEF RecoveryWF, RecoverySales
<1>3. RecoveryWF /\ RecoveryWF' /\ RecoveryRecords /\ RecoverySales /\ [RecoveryNext]_allVars
          => RecoverySales'
    BY RecoverySteps, SessionSale, FlattenSale, CrashSale DEF RecoveryRecords
<1> QED
    BY <1>1, <1>2, <1>3, RecoveryRecordsHold, PTL DEF RecoverySpec

=============================================================================
