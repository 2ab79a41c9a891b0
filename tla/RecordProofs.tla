---------------------------- MODULE RecordProofs ----------------------------
(***************************************************************************)
(* What the engine records is what the exchange has done: the rows of the  *)
(* orders table and the stop orders agree with the account's order book,   *)
(* and the emergency stop never touches a stop order nor leaves out an     *)
(* entry it found.  For every value of the constants, and with every       *)
(* fault: an entry that hides from the engine, or a positions() that       *)
(* fails, breaks OneLot but none of these.                                 *)
(* The last three sections need further hypotheses: that entries are       *)
(* capped, that an engine which goes on trading holds shares behind a      *)
(* stop, and that every trade booked is a sale.                            *)
(***************************************************************************)
EXTENDS LiveSafetyProofs, DataLemmas

EntryOrder(i, s) == i \in Buys /\ book[i].tag = s

Filled(i, q) == book[i].status = "COMPLETE" /\ book[i].filled = q

BuysInv ==
    \A i \in Buys : /\ book[i].status # "TRIGGER PENDING"
                    /\ book[i].qty = LotQty
                    /\ book[i].status = "COMPLETE" => book[i].filled \in 1..LotQty

\* The cached states a handler acts on are never COMPLETE too early.
CacheInv ==
    \A i \in DOMAIN orderInfo :
        orderInfo[i].status = "COMPLETE" => Filled(i, orderInfo[i].filled)

\* From placement to booking, an entry's id is the id of its own buy order:
\* whatever carries the tag when a lost answer is looked up is that order.
EntryCallInv ==
    /\ pc = "lookup" /\ purpose = "ENTRY" =>
          \A i \in DOMAIN book : book[i].tag = sid => i \in Buys
    /\ pc \in {"poll", "placed"} /\ purpose = "ENTRY" => EntryOrder(bid, sid)
    /\ pc \in {"placed", "readFill"} => bid \in DOMAIN orderInfo
    /\ pc \in {"readFill", "recordFill"} =>
          /\ purpose = "ENTRY" /\ EntryOrder(bid, sid)
          /\ <<sid, "ENTRY">> \in DOMAIN dbOrders
          /\ dbOrders[<<sid, "ENTRY">>].bid = bid
    /\ pc = "recordFill" => Filled(bid, pos.qty)

\* A stop is placed for what the entry of the same signal has bought.
StopCallInv ==
    purpose = "STOP_LOSS" =>
        /\ pc \in {"place", "lookup", "poll", "placed", "refused", "unanswered", "savePosition"}
        /\ \E i \in Buys : EntryOrder(i, sid) /\ Filled(i, pos.qty)

\* Only entries are on the emergency stop's list.
UiInv == \A o \in uiTodo \cup {uiOrder} : o.bid # NoOrder => o.bid \in Buys

RecordInv == /\ TagInv /\ BuysInv /\ CacheInv
             /\ EntryCallInv /\ StopCallInv
             /\ EntryRowsNameTheirOrder /\ StopsMatchFills /\ UiInv

(***************************************************************************)
(* The order book: an order keeps what it was placed for, and once         *)
(* complete it stays as it is                                              *)
(***************************************************************************)
Kept(i) ==
    /\ i \in DOMAIN book'
    /\ book'[i].side = book[i].side /\ book'[i].tag = book[i].tag
    /\ book'[i].qty = book[i].qty /\ book'[i].stop = book[i].stop
    /\ book[i].status = "COMPLETE" => book'[i] = book[i]

LEMMA SettlesKeeps ==
    ASSUME ExchangeTypeOK, NEW i \in DOMAIN book, NEW s \in {"COMPLETE", "CANCELLED"},
           NEW f \in Nat, Settles(i, s, f)
    PROVE  /\ DOMAIN book' = DOMAIN book
           /\ \A j \in DOMAIN book : Kept(j) /\ (j # i => book'[j] = book[j])
           /\ book'[i].status = s /\ book'[i].filled = f
<1>1. book[i] \in BookOrder
    BY DEF ExchangeTypeOK
<1>2. DOMAIN book' = DOMAIN book
    BY DEF Settles, Settle, ExchangeTypeOK
<1>3. \A j \in DOMAIN book : j # i => book'[j] = book[j]
    BY DEF Settles, Settle, ExchangeTypeOK
<1>4. book'[i] = [book[i] EXCEPT !.status = s, !.filled = f]
    BY DEF Settles, Settle, ExchangeTypeOK
<1>5. /\ book'[i].side = book[i].side /\ book'[i].tag = book[i].tag
      /\ book'[i].qty = book[i].qty /\ book'[i].stop = book[i].stop
      /\ book'[i].status = s /\ book'[i].filled = f
    BY <1>1, <1>4 DEF BookOrder
<1>6. book[i].status # "COMPLETE"
    BY DEF Settles
<1> QED
    BY <1>2, <1>3, <1>5, <1>6 DEF Kept

LEMMA OrdersKept ==
    ASSUME WellFormed, [Next]_vars PROVE \A j \in DOMAIN book : Kept(j)
<1>1. CASE UNCHANGED exchangeVars
    BY <1>1 DEF exchangeVars, Kept
<1>2. CASE SettlesOne
    BY <1>2, SettlesKeeps DEF WellFormed, SettlesOne
<1>3. CASE Accepts
    BY <1>3, AcceptsEffect DEF Kept
<1> QED
    BY <1>1, <1>2, <1>3, ExchangeKinds

LEMMA BuyKept ==
    ASSUME WellFormed, [Next]_vars, NEW i \in Buys
    PROVE  /\ i \in Buys' /\ book'[i].tag = book[i].tag
           /\ \A s : EntryOrder(i, s) => EntryOrder(i, s)'
           /\ \A q : Filled(i, q) => Filled(i, q)'
           /\ book[i].status = "COMPLETE" => book'[i].status = "COMPLETE"
BY OrdersKept DEF Buys, Kept, EntryOrder, Filled

LEMMA BuysInvStep ==
    ASSUME WellFormed, BuysInv, [Next]_vars PROVE BuysInv'
<1>1. CASE UNCHANGED exchangeVars
    BY <1>1 DEF exchangeVars, BuysInv, Buys
<1>2. CASE SettlesOne
    <2>1. PICK i \in DOMAIN book, s \in {"COMPLETE", "CANCELLED"}, f \in Nat : Settles(i, s, f)
        BY <1>2 DEF SettlesOne
    <2>2. /\ DOMAIN book' = DOMAIN book
          /\ \A j \in DOMAIN book : Kept(j) /\ (j # i => book'[j] = book[j])
          /\ book'[i].status = s /\ book'[i].filled = f
        BY <2>1, SettlesKeeps DEF WellFormed
    <2>3. Buys' = Buys /\ Buys \subseteq DOMAIN book
        BY <2>2 DEF Buys, Kept
    <2>4. i \in Buys /\ s = "COMPLETE" => f \in 1..LotQty
        <3> SUFFICES ASSUME i \in Buys, s = "COMPLETE" PROVE f \in 1..LotQty
            OBVIOUS
        <3>1. book[i].qty = LotQty
            BY DEF BuysInv
        <3>2. f <= LotQty /\ (f = LotQty \/ f > 0)
            BY <2>1, <3>1 DEF Settles
        <3> QED
            BY <3>2, SizesAssumption
    <2>5. ASSUME NEW j \in Buys
          PROVE  /\ book'[j].status # "TRIGGER PENDING" /\ book'[j].qty = LotQty
                 /\ book'[j].status = "COMPLETE" => book'[j].filled \in 1..LotQty
        <3>1. CASE j = i
            BY <2>2, <2>3, <2>4, <3>1 DEF BuysInv, Kept
        <3>2. CASE j # i
            BY <2>2, <2>3, <3>2 DEF BuysInv
        <3> QED
            BY <3>1, <3>2
    <2> QED
        BY <2>3, <2>5 DEF BuysInv
<1>3. CASE Accepts
    <2> DEFINE n == Len(book) + 1
    <2>1. /\ n \notin DOMAIN book /\ DOMAIN book' = DOMAIN book \cup {n}
          /\ \A j \in DOMAIN book : book'[j] = book[j]
          /\ book'[n].qty = OrderQty
          /\ book'[n].side = (IF purpose = "ENTRY" THEN "BUY" ELSE "SELL")
          /\ purpose = "ENTRY" => book'[n].status \in {"OPEN", "REJECTED"}
        BY <1>3, AcceptsEffect
    <2> HIDE DEF n
    <2>2. ASSUME NEW j \in Buys'
          PROVE  /\ book'[j].status # "TRIGGER PENDING" /\ book'[j].qty = LotQty
                 /\ book'[j].status = "COMPLETE" => book'[j].filled \in 1..LotQty
        <3>1. (j \in Buys /\ book'[j] = book[j]) \/ (j = n /\ purpose = "ENTRY")
            BY <2>1 DEF Buys
        <3> QED
            BY <2>1, <3>1 DEF BuysInv, OrderQty
    <2> QED
        BY <2>2 DEF BuysInv
<1> QED
    BY <1>1, <1>2, <1>3, ExchangeKinds

(***************************************************************************)
(* The broker's cache                                                      *)
(***************************************************************************)
LEMMA CompleteMeansComplete ==
    ASSUME NEW o \in BookOrder PROVE MapKiteStatus(o.status) = "COMPLETE" => o.status = "COMPLETE"
BY DEF BookOrder, MapKiteStatus, StatusMap, TerminalStatuses

LEMMA PollTells ==
    ASSUME ExchangeTypeOK, CacheInv, NEW i \in DOMAIN book, Poll(i)
    PROVE  CacheInv'
<1>1. book[i] \in BookOrder
    BY DEF ExchangeTypeOK
<1>2. book' = book
    BY DEF Poll, PollSettles, PollTimesOut, exchangeVars
<1>3. PICK s, q : Remember(i, s, q) /\ (s = "COMPLETE" => Filled(i, q))
    <2>1. CASE PollSettles(i)
        BY <1>1, <2>1, CompleteMeansComplete DEF PollSettles, Filled
    <2>2. CASE PollTimesOut(i)
        BY <2>2 DEF PollTimesOut
    <2> QED
        BY <2>1, <2>2 DEF Poll
<1>4. ASSUME NEW j \in DOMAIN orderInfo', orderInfo'[j].status = "COMPLETE"
      PROVE  Filled(j, orderInfo'[j].filled)
    <2>1. CASE j = i
        BY <1>2, <1>3, <1>4, <2>1 DEF Remember, Filled
    <2>2. CASE j # i
        BY <1>2, <1>3, <1>4, <2>2 DEF Remember, CacheInv, Filled
    <2> QED
        BY <2>1, <2>2
<1> QED
    BY <1>2, <1>4 DEF CacheInv, Filled

LEMMA CacheInvStep ==
    ASSUME WellFormed, CacheInv, [Next]_vars PROVE CacheInv'
<1>1. DOMAIN orderInfo \subseteq DOMAIN book
    BY DEF WellFormed, KiteWF
<1>2. CASE UNCHANGED orderInfo
    BY <1>1, <1>2, OrdersKept DEF CacheInv, Filled, Kept
<1>3. ASSUME NEW i \in Known, i # NoOrder, Poll(i) PROVE CacheInv'
    <2>1. i \in DOMAIN book
        BY <1>3 DEF Known, NoOrder, WellFormed, ExchangeTypeOK
    <2> QED
        BY <1>3, <2>1, PollTells DEF WellFormed
<1>4. CASE PollPlaced \/ PollCancel
    BY <1>3, <1>4 DEF PollPlaced, PollCancel, WellFormed, CallWF
<1>5. CASE PollCancelledEntry
    BY <1>3, <1>5 DEF PollCancelledEntry, WellFormed, UiWF
<1>6. UNCHANGED orderInfo \/ PollPlaced \/ PollCancel \/ PollCancelledEntry
    BY StepTouches
    DEF Touches, kiteVars, Place, PlaceAccepted, PlaceRefused, PlaceUnanswered, LookupByTag,
        LookupFinds, LookupFails
<1> QED
    BY <1>2, <1>4, <1>5, <1>6

(***************************************************************************)
(* Stop orders                                                             *)
(***************************************************************************)
LEMMA AcceptsStop ==
    ASSUME WellFormed, Accepts PROVE book'[Len(book) + 1].stop => purpose = "STOP_LOSS"
<1> DEFINE o == NewOrder(sid, purpose, OrderQty)
<1>1. o \in BookOrder /\ o.stop = (purpose = "STOP_LOSS")
    BY NewOrderType, OrderQtyType DEF Accepts, Place, WellFormed, CallWF, CallTypeOK, NewOrder
<1>2. Accept(o)
    BY DEF Accepts
<1> HIDE DEF o
<1>3. PICK x : book' = Append(book, x) /\ x.stop = o.stop
    <2>1. [o EXCEPT !.status = "REJECTED"].stop = o.stop
        BY <1>1 DEF BookOrder
    <2> QED
        BY <1>2, <2>1 DEF Accept
<1>4. book'[Len(book) + 1] = x
    BY <1>3 DEF WellFormed, ExchangeTypeOK
<1> QED
    BY <1>1, <1>3, <1>4

LEMMA StopsStep ==
    ASSUME WellFormed, StopCallInv, StopsMatchFills, [Next]_vars PROVE StopsMatchFills'
<1> DEFINE Matched(x) == \E j \in Buys' : /\ book'[j].tag = x.tag
                                          /\ book'[j].status = "COMPLETE"
                                          /\ x.qty = book'[j].filled
<1>1. ASSUME NEW i \in DOMAIN book, book'[i].stop PROVE Matched(book'[i])
    <2>1. book'[i].stop = book[i].stop /\ book'[i].tag = book[i].tag /\ book'[i].qty = book[i].qty
        BY OrdersKept DEF Kept
    <2>2. PICK j \in Buys : /\ book[j].tag = book[i].tag
                            /\ book[j].status = "COMPLETE" /\ book[i].qty = book[j].filled
        BY <1>1, <2>1 DEF StopsMatchFills
    <2>3. j \in Buys' /\ book'[j] = book[j]
        BY <2>2, OrdersKept, BuyKept DEF Buys, Kept
    <2> QED
        BY <2>1, <2>2, <2>3
<1>2. CASE DOMAIN book' = DOMAIN book
    BY <1>1, <1>2 DEF StopsMatchFills
<1>3. CASE Accepts
    <2> DEFINE n == Len(book) + 1
    <2>1. /\ DOMAIN book' = DOMAIN book \cup {n} /\ book'[n].tag = sid /\ book'[n].qty = OrderQty
          /\ book'[n].stop => purpose = "STOP_LOSS"
        BY <1>3, AcceptsEffect, AcceptsStop
    <2> HIDE DEF n
    <2>2. ASSUME purpose = "STOP_LOSS" PROVE Matched(book'[n])
        <3>1. PICK j \in Buys : EntryOrder(j, sid) /\ Filled(j, pos.qty)
            BY <2>2 DEF StopCallInv
        <3>2. j \in Buys' /\ book'[j] = book[j]
            BY <3>1, OrdersKept, BuyKept DEF Buys, Kept, Filled
        <3> QED
            BY <2>1, <2>2, <3>1, <3>2 DEF EntryOrder, Filled, OrderQty
    <2> QED
        BY <1>1, <2>1, <2>2 DEF StopsMatchFills
<1>4. CASE UNCHANGED exchangeVars
    BY <1>2, <1>4 DEF exchangeVars
<1>5. CASE SettlesOne
    BY <1>2, <1>5, SettlesKeeps DEF WellFormed, SettlesOne
<1> QED
    BY <1>3, <1>4, <1>5, ExchangeKinds

(***************************************************************************)
(* Entry rows                                                              *)
(***************************************************************************)

\* A row is inserted by the entry's own handler, keeps its id, and becomes
\* COMPLETE only when that handler has seen the order complete.
EntryRowFrom(k) ==
    \/ /\ k \in EntryRows /\ dbOrders'[k].bid = dbOrders[k].bid
       /\ dbOrders'[k].status = "COMPLETE" =>
             dbOrders[k].status = "COMPLETE" \/ (pc = "recordFill" /\ k = <<sid, "ENTRY">>)
    \/ /\ k = <<sid, "ENTRY">> /\ dbOrders'[k].status # "COMPLETE"
       /\ dbOrders'[k].bid = NoOrder
            \/ (pc = "placed" /\ purpose = "ENTRY" /\ dbOrders'[k].bid = bid)

LEMMA EntryRowsFrom ==
    ASSUME WellFormed, EntryCallInv, [Next]_vars, NEW k \in EntryRows'
    PROVE  EntryRowFrom(k)
<1> USE DEF EntryRows, EntryRowFrom
<1>1. CASE UNCHANGED dbOrders
    BY <1>1
<1>2. ASSUME NEW key, NEW s, UpdateOrder(key, s), k # key \/ s # "COMPLETE"
      PROVE  EntryRowFrom(k)
    <2>1. k \in DOMAIN dbOrders
        BY <1>2 DEF UpdateOrder
    <2>2. dbOrders[k] \in OrderRow
        BY <2>1 DEF WellFormed, DbWF, DbTypeOK
    <2> QED
        BY <1>2, <2>1, <2>2 DEF UpdateOrder, OrderRow
<1>3. CASE RecordFill
    <2>1. CASE UpdateOrder(<<sid, "ENTRY">>, "COMPLETE")
        <3>1. k \in DOMAIN dbOrders
            BY <2>1 DEF UpdateOrder
        <3>2. dbOrders[k] \in OrderRow
            BY <3>1 DEF WellFormed, DbWF, DbTypeOK
        <3>3. CASE k = <<sid, "ENTRY">>
            BY <1>3, <2>1, <3>1, <3>2, <3>3 DEF UpdateOrder, OrderRow, RecordFill
        <3> QED
            BY <1>2, <2>1, <3>3
    <2> QED
        BY <1>1, <1>3, <2>1 DEF RecordFill
<1>4. CASE RecordExit
    BY <1>2, <1>4 DEF RecordExit
<1>5. CASE MarkCancelled
    BY <1>1, <1>2, <1>5 DEF MarkCancelled
<1>6. CASE EntryPlaced \/ EntryUnanswered
    BY <1>1, <1>6 DEF EntryPlaced, EntryUnanswered, InsertOrder, InsertFails
<1>7. CASE StopPlaced \/ ExitPlaced
    BY <1>7 DEF StopPlaced, ExitPlaced, InsertOrder
<1>8. UNCHANGED dbOrders \/ RecordFill \/ RecordExit \/ MarkCancelled \/ EntryPlaced
         \/ EntryUnanswered \/ StopPlaced \/ ExitPlaced
    BY StepTouches
    DEF Touches, dbVars, RiskCheck, SavePosition, VerifyStop, PressStop, ClearKillSwitch
<1> QED
    BY <1>1, <1>3, <1>4, <1>5, <1>6, <1>7, <1>8

LEMMA EntryRowsStep ==
    ASSUME WellFormed, EntryCallInv, EntryRowsNameTheirOrder, [Next]_vars
    PROVE  EntryRowsNameTheirOrder'
<1>1. ASSUME NEW k \in EntryRows', dbOrders'[k].bid # NoOrder
      PROVE  /\ dbOrders'[k].bid \in Buys' /\ book'[dbOrders'[k].bid].tag = k[1]
             /\ dbOrders'[k].status = "COMPLETE" => book'[dbOrders'[k].bid].status = "COMPLETE"
    <2>1. EntryRowFrom(k)
        BY EntryRowsFrom
    <2>2. CASE k \in EntryRows /\ dbOrders'[k].bid = dbOrders[k].bid
        <3>1. dbOrders[k].bid \in Buys /\ book[dbOrders[k].bid].tag = k[1]
            BY <1>1, <2>2 DEF EntryRowsNameTheirOrder
        <3>2. dbOrders'[k].status = "COMPLETE" => book[dbOrders[k].bid].status = "COMPLETE"
            BY <1>1, <2>1, <2>2 DEF EntryRowFrom, EntryRowsNameTheirOrder, EntryCallInv, Filled
        <3> QED
            BY <2>2, <3>1, <3>2, BuyKept
    <2>3. CASE /\ k = <<sid, "ENTRY">> /\ dbOrders'[k].status # "COMPLETE"
               /\ pc = "placed" /\ purpose = "ENTRY" /\ dbOrders'[k].bid = bid
        <3>1. bid \in Buys /\ book[bid].tag = k[1]
            BY <2>3 DEF EntryCallInv, EntryOrder
        <3> QED
            BY <2>3, <3>1, BuyKept
    <2> QED
        BY <1>1, <2>1, <2>2, <2>3 DEF EntryRowFrom
<1> QED
    BY <1>1 DEF EntryRowsNameTheirOrder

(***************************************************************************)
(* The emergency stop                                                      *)
(***************************************************************************)
LEMMA UiInvStep ==
    ASSUME WellFormed, EntryRowsNameTheirOrder, UiInv, [Next]_vars PROVE UiInv'
<1>1. Buys \subseteq Buys'
    BY BuyKept
<1>2. \A o \in uiTodo' \cup {uiOrder'} : o.bid # NoOrder => o.bid \in Buys
    <2> USE DEF UiInv
    <2>1. CASE UNCHANGED uiVars
        BY <2>1 DEF uiVars
    <2>2. CASE PressStop \/ PollCancelledEntry
        BY <2>2 DEF PressStop, PollCancelledEntry
    <2>3. CASE ScanUnresolved
        BY <2>3 DEF ScanUnresolved, UnresolvedEntries, EntryRowsNameTheirOrder
    <2>4. CASE CancelNextEntry \/ MarkCancelled
        BY <2>4 DEF CancelNextEntry, MarkCancelled, NoRow
    <2> QED
        BY <2>1, <2>2, <2>3, <2>4, StepTouches DEF Touches, UiStep
<1> QED
    BY <1>1, <1>2 DEF UiInv

(***************************************************************************)
(* The handler of an entry, and of its stop                                *)
(***************************************************************************)
EntryAwaited == pc \in {"lookup", "poll", "placed", "readFill", "recordFill"}

LEMMA EntryAwaitedStep ==
    ASSUME WellFormed, [Next]_vars, EntryAwaited'
    PROVE  \/ UNCHANGED callVars /\ ~Place
           \/ Place \/ LookupByTag \/ PollPlaced \/ EntryPlaced \/ ReadFill
<1> USE DEF EntryAwaited, GoTo, Leave
<1>1. ~ReceiveCandle \/ UNCHANGED callVars
    BY DEF ReceiveCandle, IgnoreCandle, StartCandle, callVars
<1>2. ~(ExecuteBuy \/ ExecuteSell \/ RiskCheck \/ QueueSignal)
    BY DEF ExecuteBuy, ExecuteSell, RiskCheck, QueueSignal
<1>3. ~(EntryRefused \/ EntryUnanswered \/ RecordFill \/ StopPlaced \/ StopFailed \/ SavePosition)
    BY DEF EntryRefused, EntryUnanswered, RecordFill, StopPlaced, StopFailed, SavePosition
<1>4. ~ExitStep
    BY AfterExitType
    DEF ExitStep, SquareOff, CancelStop, PollCancel, VerifyStop, ExitPlaced, ExitFailed, RecordExit
<1> QED
    BY <1>1, <1>2, <1>3, <1>4, StepTouches DEF Touches, EngineStep, EntryStep

\* The row of an entry, once inserted, keeps its id.
LEMMA RowKept ==
    ASSUME WellFormed, [Next]_vars, NEW k \in DOMAIN dbOrders
    PROVE  k \in DOMAIN dbOrders' /\ dbOrders'[k].bid = dbOrders[k].bid
<1>1. dbOrders[k] \in OrderRow
    BY DEF WellFormed, DbWF, DbTypeOK
<1>2. CASE UNCHANGED dbOrders
    BY <1>2
<1>3. ASSUME NEW key, NEW s, NEW i, InsertOrder(key, s, i)
      PROVE  k \in DOMAIN dbOrders' /\ dbOrders'[k].bid = dbOrders[k].bid
    BY <1>3 DEF InsertOrder
<1>4. ASSUME NEW key, NEW s, UpdateOrder(key, s)
      PROVE  k \in DOMAIN dbOrders' /\ dbOrders'[k].bid = dbOrders[k].bid
    BY <1>1, <1>4 DEF UpdateOrder, OrderRow
<1>5. CASE RecordFill \/ RecordExit \/ MarkCancelled
    BY <1>2, <1>4, <1>5 DEF RecordFill, RecordExit, MarkCancelled
<1>6. CASE EntryPlaced \/ EntryUnanswered \/ StopPlaced \/ ExitPlaced
    BY <1>2, <1>3, <1>6 DEF EntryPlaced, EntryUnanswered, StopPlaced, ExitPlaced, InsertFails
<1> QED
    BY <1>2, <1>5, <1>6, StepTouches
    DEF Touches, dbVars, RiskCheck, SavePosition, VerifyStop, PressStop, ClearKillSwitch

\* Rows of entries come from the two ends of an entry's placement.
LEMMA EntryRowsGrow ==
    ASSUME WellFormed, [Next]_vars
    PROVE  \/ EntryRows' = EntryRows
           \/ (EntryPlaced \/ EntryUnanswered) /\ EntryRows' = EntryRows \cup {<<sid, "ENTRY">>}
<1> USE DEF EntryRows
<1>1. CASE UNCHANGED dbOrders
    BY <1>1
<1>2. ASSUME NEW key, NEW s, UpdateOrder(key, s) PROVE EntryRows' = EntryRows
    BY <1>2 DEF UpdateOrder
<1>3. ASSUME NEW key, NEW s, NEW i, InsertOrder(key, s, i)
      PROVE  EntryRows' = IF key[2] = "ENTRY" THEN EntryRows \cup {key} ELSE EntryRows
    BY <1>3 DEF InsertOrder
<1>4. CASE RecordFill \/ RecordExit \/ MarkCancelled
    BY <1>1, <1>2, <1>4 DEF RecordFill, RecordExit, MarkCancelled
<1>5. CASE EntryPlaced \/ EntryUnanswered
    BY <1>1, <1>3, <1>5 DEF EntryPlaced, EntryUnanswered, InsertFails
<1>6. CASE StopPlaced \/ ExitPlaced
    BY <1>3, <1>6 DEF StopPlaced, ExitPlaced
<1> QED
    BY <1>1, <1>4, <1>5, <1>6, StepTouches
    DEF Touches, dbVars, RiskCheck, SavePosition, VerifyStop, PressStop, ClearKillSwitch

LEMMA PolledKept == ASSUME WellFormed, [Next]_vars PROVE DOMAIN orderInfo \subseteq DOMAIN orderInfo'
<1>1. ASSUME NEW i, Poll(i) PROVE DOMAIN orderInfo \subseteq DOMAIN orderInfo'
    BY <1>1 DEF Poll, PollSettles, PollTimesOut, Remember
<1>2. UNCHANGED orderInfo \/ PollPlaced \/ PollCancel \/ PollCancelledEntry
    BY StepTouches
    DEF Touches, kiteVars, Place, PlaceAccepted, PlaceRefused, PlaceUnanswered, LookupByTag,
        LookupFinds, LookupFails
<1> QED
    BY <1>1, <1>2 DEF PollPlaced, PollCancel, PollCancelledEntry

\* Placed: the new order is the only one with the signal's tag.
LEMMA EntryPlacing ==
    ASSUME WellFormed, TagInv, Place, purpose = "ENTRY"
    PROVE  /\ \A i \in DOMAIN book' : book'[i].tag = sid => i \in Buys'
           /\ pc' = "poll" => EntryOrder(bid, sid)'
<1>1. sid \notin Tags
    BY DEF TagInv, EntryComing, Place
<1>2. CASE Accepts
    <2> DEFINE n == Len(book) + 1
    <2>1. /\ DOMAIN book' = DOMAIN book \cup {n} /\ n = Len(book')
          /\ \A j \in DOMAIN book : book'[j] = book[j]
          /\ book'[n].tag = sid /\ book'[n].side = "BUY"
        BY <1>2, AcceptsEffect
    <2>2. sid' = sid /\ (pc' = "poll" => bid' = Len(book'))
        BY DEF Place
    <2> HIDE DEF n
    <2>3. n \in Buys'
        BY <2>1 DEF Buys
    <2>4. \A i \in DOMAIN book' : book'[i].tag = sid => i = n
        BY <1>1, <2>1 DEF Tags
    <2> QED
        BY <2>1, <2>2, <2>3, <2>4 DEF EntryOrder
<1>3. CASE ~Accepts
    <2>1. UNCHANGED exchangeVars /\ pc' # "poll"
        BY <1>3 DEF Accepts, Place, PlaceAccepted, PlaceRefused, PlaceUnanswered
    <2> QED
        BY <1>1, <2>1 DEF exchangeVars, Tags, Buys
<1> QED
    BY <1>2, <1>3

LEMMA FillRead ==
    ASSUME WellFormed, BuysInv, CacheInv, EntryCallInv, ReadFill, pc' = "recordFill"
    PROVE  Filled(bid, pos'.qty)
<1>1. pc = "readFill" /\ orderInfo[bid].status = "COMPLETE" /\ pos'.qty = FilledQty(orderInfo[bid])
    BY DEF ReadFill, Leave
<1>2. Filled(bid, orderInfo[bid].filled)
    BY <1>1 DEF EntryCallInv, CacheInv
<1>3. book[bid].filled \in 1..LotQty
    BY <1>1, <1>2 DEF EntryCallInv, EntryOrder, Filled, BuysInv
<1>4. pos'.qty = orderInfo[bid].filled
    BY <1>1, <1>2, <1>3, SizesAssumption DEF FilledQty, Filled
<1> QED
    BY <1>2, <1>4

LEMMA EntryCallStep ==
    ASSUME WellFormed, TagInv, BuysInv, CacheInv, EntryCallInv, [Next]_vars
    PROVE  EntryCallInv'
<1> DEFINE RowOf == /\ <<sid, "ENTRY">> \in DOMAIN dbOrders
                    /\ dbOrders[<<sid, "ENTRY">>].bid = bid
<1>1. CASE UNCHANGED callVars /\ ~Place
    <2>1. sid' = sid /\ bid' = bid /\ pos' = pos /\ pc' = pc /\ purpose' = purpose
        BY <1>1 DEF callVars
    <2>2. DOMAIN book' = DOMAIN book
        BY <1>1, ExchangeKinds, SettlesKeeps DEF Accepts, exchangeVars, SettlesOne, WellFormed
    <2>3. EntryOrder(bid, sid) => EntryOrder(bid, sid)'
        BY <2>1, BuyKept DEF EntryOrder
    <2>4. EntryOrder(bid, sid) /\ Filled(bid, pos.qty) => Filled(bid, pos.qty)'
        BY <2>1, OrdersKept DEF EntryOrder, Filled, Buys, Kept
    <2>5. RowOf => RowOf'
        BY <2>1, RowKept
    <2>6. pc = "lookup" /\ purpose = "ENTRY" =>
              \A i \in DOMAIN book' : book'[i].tag = sid => i \in Buys'
        BY <2>2, OrdersKept, BuyKept DEF EntryCallInv, Kept
    <2> QED
        BY <2>1, <2>3, <2>4, <2>5, <2>6, PolledKept DEF EntryCallInv
<1>2. CASE Place
    <2>1. sid' = sid /\ purpose' = purpose /\ pc' \in {"poll", "refused", "lookup"}
        BY <1>2 DEF Place
    <2> QED
        BY <1>2, <2>1, EntryPlacing DEF EntryCallInv
<1>3. CASE LookupByTag
    <2>1. sid' = sid /\ purpose' = purpose /\ book' = book
        BY <1>3 DEF LookupByTag, LookupFinds, LookupFails, exchangeVars
    <2>2. CASE pc' = "unanswered"
        BY <2>2 DEF EntryCallInv
    <2>3. CASE pc' = "poll"
        <3>1. bid' \in DOMAIN book /\ book[bid'].tag = sid
            BY <1>3, <2>3 DEF LookupByTag, LookupFinds, FirstWithTag
        <3>2. purpose = "ENTRY" => EntryOrder(bid, sid)'
            BY <1>3, <2>1, <3>1, BuyKept DEF LookupByTag, EntryCallInv, EntryOrder
        <3> QED
            BY <2>1, <2>3, <3>2 DEF EntryCallInv
    <2> QED
        BY <1>3, <2>2, <2>3 DEF LookupByTag
<1>4. CASE PollPlaced
    <2>1. /\ pc = "poll" /\ pc' = "placed"
          /\ sid' = sid /\ purpose' = purpose /\ bid' = bid
          /\ bid \in DOMAIN orderInfo'
        BY <1>4 DEF PollPlaced, GoTo, Poll, PollSettles, PollTimesOut, Remember
    <2>2. purpose = "ENTRY" => EntryOrder(bid, sid)'
        BY <2>1, BuyKept DEF EntryCallInv, EntryOrder
    <2> QED
        BY <2>1, <2>2 DEF EntryCallInv
<1>5. CASE EntryPlaced
    <2>1. CASE pc' = "squareOff"
        BY <2>1 DEF EntryCallInv
    <2>2. CASE InsertOrder(<<sid, "ENTRY">>, "SUBMITTED", bid) /\ GoTo("readFill")
        <3>1. /\ pc' = "readFill" /\ sid' = sid /\ bid' = bid /\ purpose' = "ENTRY"
              /\ pc = "placed" /\ purpose = "ENTRY"
            BY <1>5, <2>2 DEF EntryPlaced, GoTo
        <3>2. EntryOrder(bid, sid)' /\ bid \in DOMAIN orderInfo'
            BY <3>1, BuyKept, PolledKept DEF EntryCallInv, EntryOrder
        <3>3. RowOf'
            BY <2>2, <3>1 DEF InsertOrder
        <3> QED
            BY <3>1, <3>2, <3>3 DEF EntryCallInv
    <2> QED
        BY <1>5, <2>1, <2>2 DEF EntryPlaced, Leave
<1>6. CASE ReadFill
    <2>1. CASE pc' = "squareOff"
        BY <2>1 DEF EntryCallInv
    <2>2. CASE pc' = "recordFill"
        <3>1. /\ pc = "readFill" /\ sid' = sid /\ bid' = bid /\ purpose' = purpose
              /\ book' = book /\ UNCHANGED dbOrders
            BY <1>6, <2>2 DEF ReadFill, Leave, exchangeVars, dbVars
        <3>2. Filled(bid, pos.qty)'
            BY <1>6, <2>2, <3>1, FillRead DEF Filled
        <3>3. EntryOrder(bid, sid)'
            BY <3>1, BuyKept DEF EntryCallInv, EntryOrder
        <3> QED
            BY <2>2, <3>1, <3>2, <3>3 DEF EntryCallInv
    <2> QED
        BY <1>6, <2>1, <2>2 DEF ReadFill, Leave
<1>7. CASE ~EntryAwaited'
    BY <1>7 DEF EntryCallInv, EntryAwaited
<1> QED
    BY <1>1, <1>2, <1>3, <1>4, <1>5, <1>6, <1>7, EntryAwaitedStep

LEMMA StopCallStep ==
    ASSUME WellFormed, EntryCallInv, StopCallInv, [Next]_vars
    PROVE  StopCallInv'
<1> SUFFICES ASSUME purpose' = "STOP_LOSS"
             PROVE  /\ pc' \in {"place", "lookup", "poll", "placed", "refused", "unanswered",
                                "savePosition"}
                    /\ \E i \in Buys' : EntryOrder(i, sid)' /\ Filled(i, pos.qty)'
    BY DEF StopCallInv
<1>1. CASE RecordFill
    <2>1. /\ pc = "recordFill" /\ pc' = "place" /\ sid' = sid /\ pos' = pos
        BY <1>1 DEF RecordFill, Leave
    <2>2. EntryOrder(bid, sid) /\ Filled(bid, pos.qty)
        BY <2>1 DEF EntryCallInv
    <2>3. bid \in Buys' /\ EntryOrder(bid, sid') /\ book'[bid] = book[bid]
        BY <2>1, <2>2, BuyKept, OrdersKept DEF EntryOrder, Filled, Buys, Kept
    <2> QED
        BY <2>1, <2>2, <2>3 DEF EntryOrder, Filled
<1>2. ASSUME purpose = "STOP_LOSS", sid' = sid, pos'.qty = pos.qty
      PROVE  \E i \in Buys' : EntryOrder(i, sid)' /\ Filled(i, pos.qty)'
    <2>1. PICK i \in Buys : EntryOrder(i, sid) /\ Filled(i, pos.qty)
        BY <1>2 DEF StopCallInv
    <2>2. i \in Buys' /\ book'[i] = book[i]
        BY <2>1, BuyKept, OrdersKept DEF Filled, Buys, Kept
    <2> QED
        BY <1>2, <2>1, <2>2 DEF EntryOrder, Filled
<1>3. CASE UNCHANGED callVars
    BY <1>2, <1>3 DEF callVars, StopCallInv
<1>4. CASE Place \/ LookupByTag \/ PollPlaced
    BY <1>2, <1>4 DEF Place, LookupByTag, PollPlaced, GoTo
<1>5. CASE StopPlaced
    <2>1. pos'.qty = pos.qty
        BY <1>5 DEF StopPlaced, WellFormed, CallWF, CallTypeOK, PosRow
    <2> QED
        BY <1>2, <1>5, <2>1 DEF StopPlaced
<1>6. CASE StopFailed
    BY <1>2, <1>6 DEF StopFailed
<1>7. ReceiveCandle => UNCHANGED callVars
    BY DEF ReceiveCandle, IgnoreCandle, StartCandle, StopCallInv, callVars
<1>8. ~(ExecuteBuy \/ ExecuteSell \/ RiskCheck \/ QueueSignal)
    BY DEF ExecuteBuy, ExecuteSell, RiskCheck, QueueSignal, StopCallInv, GoTo, Leave
<1>9. ~(EntryPlaced \/ EntryRefused \/ EntryUnanswered \/ ReadFill \/ SavePosition)
    BY DEF EntryPlaced, EntryRefused, EntryUnanswered, ReadFill, SavePosition, EntryCallInv, GoTo, Leave
<1>10. ~ExitStep
    BY DEF ExitStep, SquareOff, CancelStop, PollCancel, VerifyStop, ExitPlaced, ExitFailed, RecordExit,
           StopCallInv, GoTo, Leave
<1> QED
    BY <1>1, <1>3, <1>4, <1>5, <1>6, <1>7, <1>8, <1>9, <1>10, StepTouches
    DEF Touches, EngineStep, EntryStep

(***************************************************************************)
(* The theorems                                                            *)
(***************************************************************************)
LEMMA RecordInit == Init => RecordInv
<1> SUFFICES ASSUME Init PROVE RecordInv
    OBVIOUS
<1>1. /\ DOMAIN book = {} /\ DOMAIN orderInfo = {} /\ DOMAIN dbOrders = {}
      /\ Buys = {} /\ EntryRows = {}
    BY DEF Init, KiteInit, DbInit, Buys, EntryRows
<1>2. TagInv
    BY LotAndTagsInit DEF LotAndTags
<1>3. EntryCallInv /\ StopCallInv
    BY DEF Init, EntryCallInv, StopCallInv
<1>4. UiInv
    BY DEF Init, UiInv, NoRow
<1>5. BuysInv /\ CacheInv /\ EntryRowsNameTheirOrder /\ StopsMatchFills
    BY <1>1 DEF BuysInv, CacheInv, EntryRowsNameTheirOrder, StopsMatchFills
<1> QED
    BY <1>2, <1>3, <1>4, <1>5 DEF RecordInv

LEMMA RecordStep == WellFormed /\ RecordInv /\ [Next]_vars => RecordInv'
BY TagInvStep, BuysInvStep, CacheInvStep, EntryCallStep, StopCallStep, EntryRowsStep, StopsStep,
   UiInvStep
DEF RecordInv

LEMMA RecordAlways == Spec => [](WellFormed /\ RecordInv)
BY RecordInit, RecordStep, SessionWellFormed, PTL DEF Spec

\* However an entry's id was obtained - returned, looked up by tag after a lost
\* answer (kite_broker.py:157), or never - its row names the signal's own buy
\* order, and is COMPLETE only once that order is.
THEOREM EntryRowsAreTrue == Spec => []EntryRowsNameTheirOrder
<1>1. RecordInv => EntryRowsNameTheirOrder
    BY DEF RecordInv
<1> QED
    BY <1>1, RecordAlways, PTL

\* A stop order sells exactly what the entry of its signal has bought
\* (signal_engine.py:257), on the first attempt and on the retry.
THEOREM StopsSellTheFill == Spec => []StopsMatchFills
<1>1. RecordInv => StopsMatchFills
    BY DEF RecordInv
<1> QED
    BY <1>1, RecordAlways, PTL

LEMMA BookOrders ==
    ASSUME WellFormed
    PROVE  /\ \A j \in DOMAIN book : book[j] \in BookOrder
           /\ \A j \in Known : j # NoOrder => j \in DOMAIN book
<1> USE DEF WellFormed, ExchangeTypeOK
<1>1. \A j \in DOMAIN book : book[j] \in BookOrder
    OBVIOUS
<1>2. \A j \in Known : j # NoOrder => j \in DOMAIN book
    BY DEF Known, NoOrder
<1> QED
    BY <1>1, <1>2

LEMMA StopCancelled ==
    ASSUME WellFormed, RecordInv, [Next]_vars, NEW i \in DOMAIN book,
           book[i].status = "TRIGGER PENDING", book'[i].status = "CANCELLED"
    PROVE  pc = "cancel" /\ pos.stop = i
<1>1. ASSUME NEW j \in Known, j # NoOrder, RequestCancel(j)
      PROVE  i = j
    <2>1. j \in DOMAIN book
        BY <1>1, BookOrders
    <2> QED
        BY <1>1, <2>1 DEF RequestCancel, Settle, exchangeVars, WellFormed, ExchangeTypeOK
<1>2. CASE CancelStop
    BY <1>1, <1>2 DEF CancelStop, WellFormed, CallWF, exchangeVars
<1>3. ~CancelNextEntry
    <2> SUFFICES ASSUME CancelNextEntry PROVE FALSE
        OBVIOUS
    <2>1. PICK o \in uiTodo : o.bid # NoOrder /\ RequestCancel(o.bid)
        BY DEF CancelNextEntry, exchangeVars
    <2>2. o.bid \in Known /\ o.bid \in Buys
        BY <2>1 DEF WellFormed, UiWF, RecordInv, UiInv
    <2> QED
        BY <1>1, <2>1, <2>2 DEF RecordInv, BuysInv
<1>4. ~ExchangeMoves
    <2> SUFFICES ASSUME ExchangeMoves PROVE FALSE
        OBVIOUS
    <2>1. PICK j \in DOMAIN book : Fill(j) \/ FillPart(j) \/ Trigger(j)
        BY DEF ExchangeMoves, ExchangeStep
    <2>2. book[j] \in BookOrder /\ book[i] \in BookOrder
        BY BookOrders
    <2>3. ASSUME NEW s \in {"COMPLETE", "CANCELLED"}, NEW f, Settle(j, s, f),
                 s = "CANCELLED" => book[j].status = "OPEN"
          PROVE  FALSE
        BY <2>2, <2>3 DEF Settle, WellFormed, ExchangeTypeOK, BookOrder
    <2> QED
        BY <2>1, <2>3 DEF Fill, FillPart, Trigger
<1>5. ~Place
    <2>1. ~Accepts
        BY AcceptsEffect
    <2>2. Place => Accepts \/ UNCHANGED exchangeVars
        BY DEF Place, PlaceAccepted, PlaceRefused, PlaceUnanswered, Accepts
    <2> QED
        BY <2>1, <2>2 DEF exchangeVars
<1> QED
    BY <1>2, <1>3, <1>4, <1>5, StepTouches DEF Touches, exchangeVars

\* Of all that may cancel an order - the emergency stop, the exit, the exchange
\* after a part fill - only the exit of the position it protects cancels a
\* resting stop.
THEOREM StopsSurviveTheEmergencyStop == Spec => OnlyExitsCancelStops
<1>1. WellFormed /\ RecordInv /\ [Next]_vars =>
          \A i \in DOMAIN book :
              book[i].status = "TRIGGER PENDING" /\ book'[i].status = "CANCELLED" =>
                  pc = "cancel" /\ pos.stop = i
    BY StopCancelled
<1> QED
    BY <1>1, RecordAlways, PTL DEF Spec, OnlyExitsCancelStops

(***************************************************************************)
(* The loop of the emergency stop.  The engine can settle a row the stop   *)
(* has listed only while it executes that entry, and an entry is executed  *)
(* on the very next candle: so it is the newest of the list, which goes    *)
(* from the oldest to the newest.                                          *)
(***************************************************************************)

\* The handler of an entry, up to the end of the entry's own row.
EntryCall ==
    \/ pc \in {"buy", "risk"}
    \/ pc \in {"place", "lookup", "poll", "placed", "unanswered", "readFill", "recordFill"}
          /\ purpose = "ENTRY"

EntryInTime == EntryCall => sid[1] = "BUY" /\ sid[2] + 1 = candle

EntryRowsOld == \A k \in EntryRows : k[1][1] = "BUY" /\ k[1][2] < candle

InLoop == uiPc \in {"pollCancel", "mark"}
Listed == uiTodo \cup {o \in {uiOrder} : InLoop}

RowOf(o) == dbOrders[o.key].status

ListInv ==
    /\ \A o \in Listed : o.key \in EntryRows /\ o.status \in {"SUBMITTED", "UNKNOWN"}
    /\ \A o, q \in uiTodo : o.key[1][2] = q.key[1][2] => o = q
    /\ InLoop => \A q \in uiTodo : uiOrder.key[1][2] < q.key[1][2]
    /\ \A o \in Listed : RowOf(o) \in TerminalStatuses =>
          \A q \in uiTodo : q.key[1][2] <= o.key[1][2]

EntryStatuses ==
    \A k \in EntryRows : dbOrders[k].status \in NonTerminalStatuses =>
        dbOrders[k].status \in {"SUBMITTED", "UNKNOWN"}

LoopInv == EntryInTime /\ EntryRowsOld /\ EntryStatuses /\ ListInv

LEMMA EntryCallFrom ==
    ASSUME WellFormed, [Next]_vars, EntryCall'
    PROVE  \/ EntryCall /\ sid' = sid /\ candle' = candle
           \/ pending[1] = "BUY" /\ sid' = pending /\ candle' = pending[2] + 1
<1> USE DEF EntryCall, GoTo, Leave
<1>1. CASE ReceiveCandle
    <2>1. PICK c \in Candles : IgnoreCandle(c) \/ StartCandle(c)
        BY <1>1 DEF ReceiveCandle
    <2>2. CASE IgnoreCandle(c)
        BY <2>2 DEF IgnoreCandle, callVars
    <2>3. CASE StartCandle(c)
        BY <2>3 DEF StartCandle
    <2> QED
        BY <2>1, <2>2, <2>3
<1>2. ~ReceiveCandle => candle' = candle
    BY CandleStep
<1>3. CASE UNCHANGED callVars
    BY <1>1, <1>2, <1>3 DEF callVars
<1>4. CASE ExecuteBuy \/ RiskCheck \/ Place \/ LookupByTag \/ PollPlaced
    <2>1. ~ReceiveCandle
        BY <1>4 DEF ExecuteBuy, RiskCheck, Place, LookupByTag, PollPlaced, ReceiveCandle,
                    IgnoreCandle, StartCandle
    <2> QED
        BY <1>2, <1>4, <2>1 DEF ExecuteBuy, RiskCheck, Place, LookupByTag, PollPlaced
<1>5. CASE EntryPlaced \/ ReadFill
    <2>1. ~ReceiveCandle
        BY <1>5 DEF EntryPlaced, ReadFill, ReceiveCandle, IgnoreCandle, StartCandle
    <2> QED
        BY <1>2, <1>5, <2>1 DEF EntryPlaced, ReadFill
<1>6. ~(ExecuteSell \/ QueueSignal)
    BY DEF ExecuteSell, QueueSignal
<1>7. ~(EntryRefused \/ EntryUnanswered \/ RecordFill \/ StopPlaced \/ StopFailed \/ SavePosition)
    BY DEF EntryRefused, EntryUnanswered, RecordFill, StopPlaced, StopFailed, SavePosition
<1>8. ~ExitStep
    BY AfterExitType
    DEF ExitStep, SquareOff, CancelStop, PollCancel, VerifyStop, ExitPlaced, ExitFailed, RecordExit
<1> QED
    BY <1>1, <1>3, <1>4, <1>5, <1>6, <1>7, <1>8, StepTouches DEF Touches, EngineStep, EntryStep

LEMMA EntryInTimeStep ==
    ASSUME WellFormed, EntryInTime, [Next]_vars PROVE EntryInTime'
BY EntryCallFrom DEF EntryInTime

\* What becomes of the status of an entry's row, and by whose hand.
LEMMA EntryRowStatus ==
    ASSUME WellFormed, EntryCallInv, [Next]_vars, NEW k \in EntryRows'
    PROVE  \/ k \in EntryRows /\ dbOrders'[k].status = dbOrders[k].status
           \/ /\ k \in EntryRows /\ dbOrders'[k].status = "COMPLETE"
              /\ EntryCall /\ k[1] = sid /\ UNCHANGED uiVars
           \/ /\ k \in EntryRows /\ dbOrders'[k].status = "CANCELLED"
              /\ MarkCancelled /\ k = uiOrder.key /\ uiPc' = "next"
           \/ /\ k \notin EntryRows /\ dbOrders'[k].status \in {"SUBMITTED", "UNKNOWN"}
              /\ EntryCall /\ k[1] = sid
<1> USE DEF EntryRows
<1>1. CASE UNCHANGED dbOrders
    BY <1>1
<1>2. ASSUME NEW key, NEW s, UpdateOrder(key, s)
      PROVE  /\ k \in EntryRows
             /\ dbOrders'[k].status = (IF k = key THEN s ELSE dbOrders[k].status)
    <2>1. k \in DOMAIN dbOrders
        BY <1>2 DEF UpdateOrder
    <2>2. dbOrders[k] \in OrderRow
        BY <2>1 DEF WellFormed, DbWF, DbTypeOK
    <2> QED
        BY <1>2, <2>1, <2>2 DEF UpdateOrder, OrderRow
<1>3. CASE RecordFill
    <2>1. CASE UpdateOrder(<<sid, "ENTRY">>, "COMPLETE")
        <3>1. EntryCall /\ UNCHANGED uiVars
            BY <1>3 DEF RecordFill, EntryCallInv, EntryCall
        <3> QED
            BY <1>2, <2>1, <3>1
    <2> QED
        BY <1>1, <1>3, <2>1 DEF RecordFill
<1>4. CASE RecordExit
    BY <1>2, <1>4 DEF RecordExit
<1>5. CASE MarkCancelled
    <2>1. CASE UpdateOrder(uiOrder.key, "CANCELLED") /\ uiPc' = "next"
        BY <1>2, <1>5, <2>1
    <2> QED
        BY <1>1, <1>5, <2>1 DEF MarkCancelled
<1>6. CASE EntryPlaced \/ EntryUnanswered
    <2>1. EntryCall
        BY <1>6 DEF EntryPlaced, EntryUnanswered, EntryCall
    <2>2. ASSUME NEW s \in {"SUBMITTED", "UNKNOWN"}, NEW i, InsertOrder(<<sid, "ENTRY">>, s, i)
          PROVE  \/ k \in EntryRows /\ dbOrders'[k].status = dbOrders[k].status
                 \/ /\ k \notin EntryRows /\ dbOrders'[k].status \in {"SUBMITTED", "UNKNOWN"}
                    /\ k[1] = sid
        BY <2>2 DEF InsertOrder
    <2> QED
        BY <1>1, <1>6, <2>1, <2>2 DEF EntryPlaced, EntryUnanswered, InsertFails
<1>7. CASE StopPlaced \/ ExitPlaced
    BY <1>7 DEF StopPlaced, ExitPlaced, InsertOrder
<1>8. UNCHANGED dbOrders \/ RecordFill \/ RecordExit \/ MarkCancelled \/ EntryPlaced
         \/ EntryUnanswered \/ StopPlaced \/ ExitPlaced
    BY StepTouches
    DEF Touches, dbVars, RiskCheck, SavePosition, VerifyStop, PressStop, ClearKillSwitch
<1> QED
    BY <1>1, <1>3, <1>4, <1>5, <1>6, <1>7, <1>8

LEMMA EntryKeys ==
    ASSUME WellFormed
    PROVE  /\ \A k \in EntryRows : k[1][2] \in Int /\ dbOrders[k].status \in OrderStatus
           /\ candle \in Int /\ sid[2] \in Int
<1>1. \A k \in OrderKeys : k[1][2] \in Int
    BY SizesAssumption DEF OrderKeys, SignalIds, Candles
<1>2. \A k \in EntryRows : k \in OrderKeys /\ dbOrders[k] \in OrderRow
    BY DEF EntryRows, WellFormed, DbWF, DbTypeOK
<1>3. candle \in Int
    BY SizesAssumption DEF WellFormed, EngineTypeOK
<1> QED
    BY <1>1, <1>2, <1>3, SignalNumbers DEF OrderRow

LEMMA EntryRowsOldStep ==
    ASSUME WellFormed, EntryCallInv, EntryInTime, EntryRowsOld, EntryStatuses, [Next]_vars
    PROVE  EntryRowsOld' /\ EntryStatuses'
<1>1. candle' \in Int /\ candle' >= candle
    <2>1. WellFormed'
        BY WellFormedStep
    <2>2. candle \in Int /\ candle' \in Int
        BY <2>1, SizesAssumption DEF WellFormed, EngineTypeOK
    <2> QED
        BY <2>2, CandleStep
<1>2. ASSUME NEW k \in EntryRows'
      PROVE  /\ k[1][1] = "BUY" /\ k[1][2] < candle'
             /\ dbOrders'[k].status \in NonTerminalStatuses =>
                   dbOrders'[k].status \in {"SUBMITTED", "UNKNOWN"}
    <2>1. CASE k \in EntryRows
        <3>1. k[1][1] = "BUY" /\ k[1][2] < candle /\ k[1][2] \in Int /\ candle \in Int
            BY <2>1, EntryKeys DEF EntryRowsOld
        <3>2. \/ dbOrders'[k].status = dbOrders[k].status
              \/ dbOrders'[k].status \in {"COMPLETE", "CANCELLED"}
            BY <1>2, <2>1, EntryRowStatus
        <3>3. {"COMPLETE", "CANCELLED"} \cap NonTerminalStatuses = {}
            BY DEF NonTerminalStatuses
        <3> QED
            BY <1>1, <2>1, <3>1, <3>2, <3>3 DEF EntryStatuses
    <2>2. CASE k \notin EntryRows
        <3>1. EntryCall /\ k[1] = sid /\ dbOrders'[k].status \in {"SUBMITTED", "UNKNOWN"}
            BY <1>2, <2>2, EntryRowStatus
        <3>2. sid[1] = "BUY" /\ sid[2] < candle
            BY <3>1, EntryKeys DEF EntryInTime
        <3> QED
            BY <1>1, <3>1, <3>2, EntryKeys
    <2> QED
        BY <2>1, <2>2
<1> QED
    BY <1>2 DEF EntryRowsOld, EntryStatuses

\* A listed row that becomes terminal is that of the newest entry, or leaves
\* the list.
LEMMA ListKeptByOthers ==
    ASSUME WellFormed, EntryCallInv, EntryInTime, EntryRowsOld, ListInv, [Next]_vars, UNCHANGED uiVars
    PROVE  ListInv'
<1>1. Listed' = Listed /\ InLoop' = InLoop /\ uiTodo' = uiTodo /\ uiOrder' = uiOrder /\ ~MarkCancelled
    BY DEF uiVars, Listed, InLoop, MarkCancelled, NoRow
<1>2. EntryRows \subseteq EntryRows'
    BY EntryRowsGrow
<1>3. ASSUME NEW o \in Listed, dbOrders'[o.key].status \in TerminalStatuses, NEW q \in uiTodo
      PROVE  q.key[1][2] <= o.key[1][2]
    <2>1. o.key \in EntryRows /\ o.key \in EntryRows' /\ q.key \in EntryRows
        BY <1>2 DEF ListInv, Listed
    <2>2. CASE dbOrders'[o.key].status = dbOrders[o.key].status
        BY <1>3, <2>2 DEF ListInv, RowOf
    <2>3. CASE EntryCall /\ o.key[1] = sid
        <3>1. sid[2] + 1 = candle /\ q.key[1][2] < candle
            BY <2>1, <2>3 DEF EntryInTime, EntryRowsOld
        <3> QED
            BY <2>1, <2>3, <3>1, EntryKeys
    <2> QED
        BY <1>1, <2>1, <2>2, <2>3, EntryRowStatus
<1> QED
    BY <1>1, <1>2, <1>3 DEF ListInv, RowOf

LEMMA ListScanned ==
    ASSUME WellFormed, EntryRowsOld, EntryStatuses, ScanUnresolved PROVE ListInv'
<1>1. EntryRows' = EntryRows /\ dbOrders' = dbOrders /\ ~InLoop' /\ Listed' = uiTodo'
    BY DEF ScanUnresolved, EntryRows, dbVars, InLoop, Listed
<1>2. ASSUME NEW o \in uiTodo'
      PROVE  /\ o.key \in EntryRows /\ o.status = dbOrders[o.key].status /\ o.bid = dbOrders[o.key].bid
             /\ o.status \in {"SUBMITTED", "UNKNOWN"}
             /\ o = [key |-> o.key, status |-> dbOrders[o.key].status, bid |-> dbOrders[o.key].bid]
    BY DEF ScanUnresolved, UnresolvedEntries, EntryStatuses
<1>3. ASSUME NEW o \in uiTodo', NEW q \in uiTodo', o.key[1][2] = q.key[1][2]
      PROVE  o = q
    <2>1. /\ o.key \in OrderKeys /\ o.key[1][1] = "BUY" /\ o.key[2] = "ENTRY"
          /\ q.key \in OrderKeys /\ q.key[1][1] = "BUY" /\ q.key[2] = "ENTRY"
        BY <1>2 DEF EntryRows, EntryRowsOld, WellFormed, DbWF, DbTypeOK
    <2>2. o.key = q.key
        BY <1>3, <2>1 DEF OrderKeys, SignalIds
    <2> QED
        BY <1>2, <2>2
<1>4. {"SUBMITTED", "UNKNOWN"} \cap TerminalStatuses = {}
    BY DEF TerminalStatuses
<1>5. \A o \in uiTodo' : o.key \in EntryRows' /\ o.status \in {"SUBMITTED", "UNKNOWN"}
    BY <1>1, <1>2
<1>6. \A o \in uiTodo' : dbOrders'[o.key].status \notin TerminalStatuses
    BY <1>1, <1>2, <1>4
<1> QED
    BY <1>1, <1>3, <1>5, <1>6 DEF ListInv, RowOf

LEMMA ListTaken ==
    ASSUME WellFormed, ListInv, CancelNextEntry PROVE ListInv'
<1>1. EntryRows' = EntryRows /\ dbOrders' = dbOrders /\ uiTodo \subseteq Listed
    BY DEF CancelNextEntry, EntryRows, dbVars, Listed
<1>2. CASE uiTodo = {}
    BY <1>1, <1>2 DEF CancelNextEntry, ListInv, Listed, InLoop, RowOf
<1>3. CASE uiTodo # {}
    <2>1. PICK o \in uiTodo : OldestFirst(o) /\ uiTodo' = uiTodo \ {o} /\ uiOrder' = o
        BY <1>3 DEF CancelNextEntry
    <2>2. Listed' \subseteq uiTodo
        BY <2>1 DEF Listed
    <2>3. \A q \in uiTodo' : o.key[1][2] < q.key[1][2]
        <3> SUFFICES ASSUME NEW q \in uiTodo' PROVE o.key[1][2] < q.key[1][2]
            OBVIOUS
        <3>1. q \in uiTodo /\ q # o
            BY <2>1
        <3>2. o.key[1][2] # q.key[1][2] /\ o.key \in EntryRows /\ q.key \in EntryRows
            BY <1>1, <3>1 DEF ListInv
        <3> QED
            BY <2>1, <3>1, <3>2, EntryKeys DEF OldestFirst
    <2>4. /\ \A p \in Listed' : p.key \in EntryRows' /\ p.status \in {"SUBMITTED", "UNKNOWN"}
          /\ \A p, q \in uiTodo' : p.key[1][2] = q.key[1][2] => p = q
          /\ \A p \in Listed' : dbOrders'[p.key].status \in TerminalStatuses =>
                \A q \in uiTodo' : q.key[1][2] <= p.key[1][2]
        BY <1>1, <2>1, <2>2 DEF ListInv, RowOf
    <2> QED
        BY <2>1, <2>3, <2>4 DEF ListInv, RowOf
<1> QED
    BY <1>2, <1>3

\* The row just marked is older than all that are still to come.
LEMMA ListMarked ==
    ASSUME WellFormed, EntryCallInv, ListInv, [Next]_vars, MarkCancelled PROVE ListInv'
<1>1. ~InLoop' /\ Listed' = uiTodo' /\ EntryRows \subseteq EntryRows'
    BY EntryRowsGrow DEF MarkCancelled, InLoop, Listed
<1>2. CASE uiTodo' = {}
    BY <1>1, <1>2 DEF ListInv
<1>3. CASE uiTodo' = uiTodo /\ UpdateOrder(uiOrder.key, "CANCELLED")
    <2>1. ASSUME NEW o \in uiTodo
          PROVE  o.key \in EntryRows /\ dbOrders'[o.key] = dbOrders[o.key]
        <3>1. o.key \in EntryRows /\ uiOrder.key \in EntryRows /\ uiOrder.key[1][2] < o.key[1][2]
            BY DEF MarkCancelled, ListInv, Listed, InLoop
        <3>2. o.key # uiOrder.key
            BY <3>1, EntryKeys
        <3> QED
            BY <1>3, <3>1, <3>2 DEF UpdateOrder, EntryRows
    <2> QED
        BY <1>1, <1>3, <2>1 DEF ListInv, Listed, RowOf
<1> QED
    BY <1>2, <1>3 DEF MarkCancelled

LEMMA LoopStep == WellFormed /\ EntryCallInv /\ LoopInv /\ [Next]_vars => LoopInv'
<1> SUFFICES ASSUME WellFormed, EntryCallInv, LoopInv, [Next]_vars PROVE LoopInv'
    OBVIOUS
<1> USE DEF LoopInv
<1>1. CASE PressStop \/ PollCancelledEntry
    <2>1. EntryRows' = EntryRows /\ dbOrders' = dbOrders /\ uiTodo' = uiTodo /\ uiOrder' = uiOrder
        BY <1>1 DEF PressStop, PollCancelledEntry, EntryRows, dbVars
    <2>2. Listed' \subseteq Listed /\ (InLoop' => InLoop)
        BY <1>1, <2>1 DEF Listed, InLoop, PressStop, PollCancelledEntry
    <2>3. ListInv'
        BY <2>1, <2>2 DEF ListInv, RowOf
    <2> QED
        BY <2>3, EntryInTimeStep, EntryRowsOldStep
<1>2. CASE UNCHANGED uiVars
    BY <1>2, ListKeptByOthers, EntryInTimeStep, EntryRowsOldStep
<1>3. CASE ScanUnresolved \/ CancelNextEntry \/ MarkCancelled
    BY <1>3, ListScanned, ListTaken, ListMarked, EntryInTimeStep, EntryRowsOldStep
<1> QED
    BY <1>1, <1>2, <1>3, StepTouches DEF Touches, UiStep

LEMMA LoopInit == Init => LoopInv
<1> SUFFICES ASSUME Init PROVE LoopInv
    OBVIOUS
<1>1. EntryRows = {} /\ Listed = {} /\ uiTodo = {} /\ ~InLoop /\ ~EntryCall
    BY DEF Init, DbInit, EntryRows, Listed, InLoop, EntryCall
<1> QED
    BY <1>1 DEF LoopInv, EntryInTime, EntryRowsOld, EntryStatuses, ListInv

LEMMA LoopEndsAtLast ==
    ASSUME WellFormed, LoopInv, [Next]_vars, uiPc = "mark", uiPc' = "ready"
    PROVE  uiTodo = {}
<1>1. MarkCancelled
    BY StepTouches DEF Touches, uiVars, UiStep, PressStop, ScanUnresolved, CancelNextEntry,
                       PollCancelledEntry
<1>2. uiOrder \in Listed
    BY DEF Listed, InLoop
<1>3. CanTransition(uiOrder.status, "CANCELLED")
    BY <1>2 DEF LoopInv, ListInv, CanTransition, LegalOrderTransitions, TerminalStatuses
<1>4. RowOf(uiOrder) \in TerminalStatuses
    BY <1>1, <1>3 DEF MarkCancelled, UpdateAllowed, RowOf
<1>5. ASSUME NEW q \in uiTodo PROVE FALSE
    <2>1. uiOrder.key[1][2] < q.key[1][2] /\ q.key[1][2] <= uiOrder.key[1][2]
        BY <1>2, <1>4 DEF LoopInv, ListInv, InLoop
    <2>2. uiOrder.key \in EntryRows /\ q.key \in EntryRows
        BY <1>2 DEF LoopInv, ListInv, Listed
    <2> QED
        BY <2>1, <2>2, EntryKeys
<1> QED
    BY <1>5

\* Though the engine may settle a listed row while the loop runs, and an
\* exception then ends it (emergency_stop.py:33), no entry the emergency stop
\* found is left out: an entry is executed on the very next candle, so the
\* engine is at the newest of the list, which the loop reaches last.
THEOREM StopLoopsToItsEnd == Spec => StopLeavesNoneOut
<1>1. WellFormed /\ RecordInv /\ LoopInv /\ [Next]_vars => LoopInv'
    BY LoopStep DEF RecordInv
<1>2. WellFormed /\ LoopInv /\ [Next]_vars => (uiPc = "mark" /\ uiPc' = "ready" => uiTodo = {})
    BY LoopEndsAtLast
<1> QED
    BY <1>1, <1>2, LoopInit, RecordAlways, PTL DEF Spec, StopLeavesNoneOut

(***************************************************************************)
(* The cap on a day's entries.  The risk check counts rows; that bounds    *)
(* the orders as long as no order goes without its row, as an unforeseen   *)
(* exception or a failing INSERT would have it.                            *)
(***************************************************************************)
NoRowlessOrder == {"unexpected", "db"} \cap Faults = {}

\* An entry is on its way to the exchange, or already there, without a row.
EntryPlaceable == pc = "place" /\ purpose = "ENTRY"
EntrySent      == pc \in {"lookup", "poll", "placed", "unanswered"} /\ purpose = "ENTRY"

TradesInv ==
    /\ IsFiniteSet(EntryRows)
    /\ EntriesToday <= MaxTrades
    /\ EntryPlaceable \/ EntrySent => EntriesToday < MaxTrades
    /\ \A i \in Buys : \/ <<book[i].tag, "ENTRY">> \in EntryRows
                       \/ EntrySent /\ book[i].tag = sid

LEMMA PlaceableStep ==
    ASSUME WellFormed, [Next]_vars, EntryPlaceable'
    PROVE  EntryPlaceable \/ (RiskCheck /\ EntryPermitted /\ TradesLeft)
<1> USE DEF EntryPlaceable
<1>1. EntryComing /\ ~ReceiveCandle
    BY EntryComingStep DEF EntryComing, ReceiveCandle, IgnoreCandle, StartCandle
<1>2. CASE pc = "buy"
    BY <1>2, OnlyExecuteBuy DEF callVars, ExecuteBuy, GoTo, Leave
<1>3. CASE pc = "risk"
    <2>1. ~(ExecuteBuy \/ ExecuteSell \/ Place \/ LookupByTag \/ PollPlaced \/ QueueSignal)
        BY <1>3 DEF ExecuteBuy, ExecuteSell, Place, LookupByTag, PollPlaced, QueueSignal
    <2>2. ~EntryStep
        BY <1>3 DEF EntryStep, EntryPlaced, EntryRefused, EntryUnanswered, ReadFill, RecordFill,
                    StopPlaced, StopFailed, SavePosition
    <2>3. ~ExitStep
        BY <1>3 DEF ExitStep, SquareOff, CancelStop, PollCancel, VerifyStop, ExitPlaced,
                    ExitFailed, RecordExit
    <2>4. RiskCheck
        BY <1>1, <1>3, <2>1, <2>2, <2>3, StepTouches DEF Touches, EngineStep, callVars
    <2> QED
        BY <2>4 DEF RiskCheck, Leave
<1> QED
    BY <1>1, <1>2, <1>3 DEF EntryComing

\* An entry that was sent stays so until its row is there.
LEMMA SentStep ==
    ASSUME NoRowlessOrder, WellFormed, [Next]_vars, EntrySent
    PROVE  \/ EntrySent' /\ sid' = sid /\ EntryRows' = EntryRows
           \/ ~EntrySent' /\ <<sid, "ENTRY">> \in EntryRows'
<1> USE DEF EntrySent
<1>1. CASE UNCHANGED callVars
    <2>1. ~EntryPlaced /\ ~EntryUnanswered
        BY <1>1 DEF EntryPlaced, EntryUnanswered, callVars, GoTo, Leave
    <2> QED
        BY <1>1, <2>1, EntryRowsGrow DEF callVars
<1>2. CASE LookupByTag \/ PollPlaced
    BY <1>2, EntryRowsGrow
    DEF LookupByTag, PollPlaced, GoTo, EntryPlaced, EntryUnanswered, dbVars, EntryRows
<1>3. CASE EntryPlaced \/ EntryUnanswered
    <2>1. <<sid, "ENTRY">> \in DOMAIN dbOrders'
        BY <1>3 DEF EntryPlaced, EntryUnanswered, InsertOrder, InsertFails, NoRowlessOrder
    <2>2. ~EntrySent'
        BY <1>3 DEF EntryPlaced, EntryUnanswered, GoTo, Leave
    <2> QED
        BY <2>1, <2>2 DEF EntryRows
<1>4. ~ReceiveCandle \/ UNCHANGED callVars
    BY DEF ReceiveCandle, IgnoreCandle, StartCandle
<1>5. ~(ExecuteBuy \/ ExecuteSell \/ RiskCheck \/ Place \/ QueueSignal)
    BY DEF ExecuteBuy, ExecuteSell, RiskCheck, Place, QueueSignal
<1>6. ~(EntryRefused \/ ReadFill \/ RecordFill \/ StopPlaced \/ StopFailed \/ SavePosition)
    BY DEF EntryRefused, ReadFill, RecordFill, StopPlaced, StopFailed, SavePosition
<1>7. ~ExitStep
    BY DEF ExitStep, SquareOff, CancelStop, PollCancel, VerifyStop, ExitPlaced, ExitFailed, RecordExit
<1> QED
    BY <1>1, <1>2, <1>3, <1>4, <1>5, <1>6, <1>7, StepTouches DEF Touches, EngineStep, EntryStep

LEMMA SentFrom ==
    ASSUME WellFormed, [Next]_vars, EntrySent' PROVE EntrySent \/ (EntryPlaceable /\ Place)
<1> USE DEF EntrySent, EntryPlaceable, GoTo, Leave
<1>1. CASE UNCHANGED callVars \/ Place \/ LookupByTag \/ PollPlaced
    BY <1>1 DEF callVars, Place, LookupByTag, PollPlaced
<1>2. ~ReceiveCandle \/ UNCHANGED callVars
    BY DEF ReceiveCandle, IgnoreCandle, StartCandle, callVars
<1>3. ~(ExecuteBuy \/ ExecuteSell \/ RiskCheck \/ QueueSignal)
    BY DEF ExecuteBuy, ExecuteSell, RiskCheck, QueueSignal
<1>4. ~EntryStep
    BY DEF EntryStep, EntryPlaced, EntryRefused, EntryUnanswered, ReadFill, RecordFill, StopPlaced,
           StopFailed, SavePosition
<1>5. ~ExitStep
    BY AfterExitType
    DEF ExitStep, SquareOff, CancelStop, PollCancel, VerifyStop, ExitPlaced, ExitFailed, RecordExit
<1> QED
    BY <1>1, <1>2, <1>3, <1>4, <1>5, StepTouches DEF Touches, EngineStep

LEMMA BuyTracked ==
    ASSUME NoRowlessOrder, WellFormed, TradesInv, [Next]_vars, NEW i \in Buys'
    PROVE  \/ <<book'[i].tag, "ENTRY">> \in EntryRows'
           \/ EntrySent' /\ book'[i].tag = sid'
<1>1. ASSUME i \in Buys
      PROVE  \/ <<book'[i].tag, "ENTRY">> \in EntryRows'
             \/ EntrySent' /\ book'[i].tag = sid'
    <2>1. book'[i].tag = book[i].tag
        BY <1>1, BuyKept
    <2>2. CASE <<book[i].tag, "ENTRY">> \in EntryRows
        BY <2>1, <2>2, EntryRowsGrow
    <2>3. CASE EntrySent /\ book[i].tag = sid
        BY <2>1, <2>3, SentStep
    <2> QED
        BY <1>1, <2>2, <2>3 DEF TradesInv
<1>2. ASSUME i \notin Buys
      PROVE  EntrySent' /\ book'[i].tag = sid'
    <2>1. BuyAdded
        BY <1>2, BuysStep DEF BuysKept
    <2>2. book'[i].tag = sid
        BY <1>2, <2>1 DEF BuyAdded
    <2>3. pc' # "refused"
        <3>1. Place /\ pc' = "refused" => UNCHANGED exchangeVars
            BY DEF Place, PlaceRefused, NoRowlessOrder, exchangeVars
        <3> QED
            BY <1>2, <2>1, <3>1 DEF BuyAdded, exchangeVars, Buys
    <2> QED
        BY <2>1, <2>2, <2>3 DEF BuyAdded, Place, EntrySent
<1> QED
    BY <1>1, <1>2

LEMMA OneMore ==
    ASSUME NEW S, IsFiniteSet(S), NEW x
    PROVE  /\ IsFiniteSet(S \cup {x})
           /\ Cardinality(S \cup {x}) \in Nat /\ Cardinality(S \cup {x}) <= Cardinality(S) + 1
<1>1. IsFiniteSet(S \cup {x}) /\ Cardinality(S) \in Nat
    BY FS_AddElement, FS_CardinalityType
<1>2. Cardinality(S \cup {x}) = Cardinality(S) \/ Cardinality(S \cup {x}) = Cardinality(S) + 1
    BY FS_AddElement, Zenon
<1> QED
    BY <1>1, <1>2

LEMMA TradesStep ==
    ASSUME NoRowlessOrder, WellFormed, TradesInv, [Next]_vars
    PROVE  TradesInv'
<1>1. /\ IsFiniteSet(EntryRows) /\ EntriesToday \in Nat /\ MaxTrades \in Nat
      /\ EntriesToday <= MaxTrades
    BY FS_CardinalityType, MaxTradesAssumption DEF TradesInv, EntriesToday
<1>2. CASE EntryRows' = EntryRows
    <2>1. EntriesToday' = EntriesToday
        BY <1>2 DEF EntriesToday
    <2>2. EntryPlaceable' \/ EntrySent' => EntriesToday < MaxTrades
        BY PlaceableStep, SentFrom DEF TradesInv, TradesLeft
    <2> QED
        BY <1>1, <1>2, <2>1, <2>2, BuyTracked DEF TradesInv
<1>3. CASE EntryRows' # EntryRows
    <2>1. /\ EntryPlaced \/ EntryUnanswered
          /\ EntryRows' = EntryRows \cup {<<sid, "ENTRY">>}
        BY <1>3, EntryRowsGrow
    <2>2. EntrySent /\ ~EntrySent' /\ ~EntryPlaceable'
        BY <2>1 DEF EntryPlaced, EntryUnanswered, EntrySent, EntryPlaceable, GoTo, Leave
    <2>3. IsFiniteSet(EntryRows') /\ EntriesToday' <= EntriesToday + 1 /\ EntriesToday' \in Nat
        BY <1>1, <2>1, OneMore DEF EntriesToday
    <2>4. EntriesToday' <= MaxTrades
        BY <1>1, <2>2, <2>3 DEF TradesInv
    <2> QED
        BY <2>2, <2>3, <2>4, BuyTracked DEF TradesInv
<1> QED
    BY <1>2, <1>3

\* As many entries as rows, or one more while an entry waits for its row.
LEMMA RowsBoundBuys ==
    ASSUME WellFormed, TradesInv, OneEntryPerSignal PROVE TradesCapped
<1> DEFINE Keys == EntryRows \cup (IF EntrySent THEN {<<sid, "ENTRY">>} ELSE {})
           key == [i \in Buys |-> <<book[i].tag, "ENTRY">>]
<1>1. EntriesToday \in Nat /\ MaxTrades \in Nat /\ IsFiniteSet(EntryRows)
    BY FS_CardinalityType, MaxTradesAssumption DEF TradesInv, EntriesToday
<1>2. IsFiniteSet(Keys) /\ Cardinality(Keys) <= MaxTrades /\ Cardinality(Keys) \in Nat
    <2>1. CASE EntrySent
        <3>1. /\ Keys = EntryRows \cup {<<sid, "ENTRY">>}
              /\ EntriesToday < MaxTrades
            BY <2>1 DEF TradesInv
        <3>2. IsFiniteSet(Keys) /\ Cardinality(Keys) <= EntriesToday + 1
            BY <1>1, <3>1, OneMore DEF EntriesToday
        <3> QED
            BY <1>1, <3>1, <3>2, FS_CardinalityType
    <2>2. CASE ~EntrySent
        BY <1>1, <2>2, FS_CardinalityType DEF TradesInv, EntriesToday
    <2> QED
        BY <2>1, <2>2
<1>3. key \in Injection(Buys, Keys)
    <2>1. \A i \in Buys : key[i] \in Keys
        BY DEF TradesInv
    <2>2. \A i, j \in Buys : key[i] = key[j] => i = j
        BY DEF OneEntryPerSignal
    <2> QED
        BY <2>1, <2>2 DEF Injection, IsInjective
<1> HIDE DEF Keys, key
<1>4. IsFiniteSet(Buys) /\ Cardinality(Buys) <= Cardinality(Keys)
    BY <1>2, <1>3, FS_Injection
<1>5. Cardinality(Buys) \in Nat
    BY <1>4, FS_CardinalityType
<1> QED
    BY <1>1, <1>2, <1>4, <1>5 DEF TradesCapped

LEMMA TradesInit == Init => TradesInv /\ SignalInv
<1> SUFFICES ASSUME Init PROVE TradesInv /\ SignalInv
    OBVIOUS
<1>1. Buys = {} /\ EntryRows = {}
    BY DEF Init, DbInit, Buys, EntryRows
<1>2. TradesInv
    BY <1>1, FS_EmptySet, MaxTradesAssumption
    DEF Init, TradesInv, EntriesToday, EntryPlaceable, EntrySent
<1>3. SignalInv
    BY <1>1 DEF Init, SignalInv, OneEntryPerSignal, BoughtFor, EntryComing
<1> QED
    BY <1>2, <1>3

\* max_trades_per_day bounds the buy orders the exchange has been sent, not
\* only the rows counted by check_entry (risk_manager.py:89), through lost
\* answers, timeouts and rejections, as long as no order goes without a row.
THEOREM EntriesAreCapped == ASSUME NoRowlessOrder PROVE Spec => []TradesCapped
<1>1. WellFormed /\ TradesInv /\ SignalInv /\ [Next]_vars => (TradesInv /\ SignalInv)'
    BY TradesStep, SignalStep
<1>2. WellFormed /\ TradesInv /\ SignalInv => TradesCapped
    BY RowsBoundBuys DEF SignalInv
<1> QED
    BY <1>1, <1>2, TradesInit, SessionWellFormed, PTL DEF Spec

(***************************************************************************)
(* Protection.  An engine that goes on trading, and can, holds no shares   *)
(* without a stop at rest; between the entry's fill and the stop it is     *)
(* inside one process_candle.  The proof follows the handler: what covers  *)
(* the shares at each call, or why there are none.                         *)
(***************************************************************************)
CanTrade == ~halted /\ ~brokerHalted

\* The order is a stop that rests, or there is nothing left to sell.
Rests(i) == i \in DOMAIN book /\ book[i].stop /\ (book[i].status = "TRIGGER PENDING" \/ net <= 0)

\* No order is lost, rejected or filled in part, every row is inserted, and
\* nobody presses the emergency stop.
NoLooseEnds ==
    /\ MaxStops = 0
    /\ {"rejected", "partial", "network", "unexpected", "db"} \cap Faults = {}

CallKnown ==
    /\ uiPc = "ready"
    /\ pc \notin {"lookup", "unanswered"}
    /\ pc = "savePosition" => purpose = "STOP_LOSS"
    /\ purpose = "EXIT" => pc \in {"place", "poll", "placed", "refused", "recordExit"}

BuysWhole == \A i \in Buys : book[i].status = "OPEN" \/ Filled(i, LotQty)

BuysPolled ==
    /\ net <= LotQty
    /\ \A i \in OpenBuys : pc = "poll" /\ purpose = "ENTRY" /\ i = bid /\ net <= 0

Completes(i)   == Working(i) /\ Settle(i, "COMPLETE", book[i].qty)
StopCancels(i) == CancelStop /\ i = pos.stop /\ Working(i) /\ Settle(i, "CANCELLED", 0)

LEMMA CallKnownInit == Init => CallKnown
BY DEF Init, CallKnown

LEMMA CallKnownStep ==
    ASSUME NoLooseEnds, WellFormed, StopCallInv, CallKnown, [Next]_vars PROVE CallKnown'
<1>1. ~PressStop /\ ~UiStep
    BY DEF NoLooseEnds, CallKnown, WellFormed, UiWF, UiTypeOK, PressStop, UiStep, ScanUnresolved,
           CancelNextEntry, PollCancelledEntry, MarkCancelled
<1>2. uiPc' = "ready"
    BY <1>1, StepTouches DEF Touches, uiVars, CallKnown
<1> DEFINE Located == /\ pc \notin {"lookup", "unanswered"}
                      /\ pc = "savePosition" => purpose = "STOP_LOSS"
                      /\ purpose = "EXIT" => pc \in {"place", "poll", "placed", "refused", "recordExit"}
<1>3. Located
    BY DEF CallKnown
<1>4. Located'
    <2>1. CASE UNCHANGED callVars
        BY <1>3, <2>1 DEF callVars
    <2>2. CASE ReceiveCandle
        BY <1>3, <2>2 DEF ReceiveCandle, IgnoreCandle, StartCandle, callVars
    <2>3. CASE ExecuteBuy \/ ExecuteSell \/ RiskCheck \/ QueueSignal
        BY <1>3, <2>3 DEF ExecuteBuy, ExecuteSell, RiskCheck, QueueSignal, GoTo, Leave
    <2>4. CASE ExitStep
        BY <1>3, <2>4, AfterExitType
        DEF ExitStep, SquareOff, CancelStop, PollCancel, VerifyStop, ExitPlaced, ExitFailed, RecordExit,
            GoTo, Leave
    <2>5. CASE Place \/ LookupByTag \/ PollPlaced
        BY <1>3, <2>5 DEF Place, PlaceUnanswered, LookupByTag, PollPlaced, GoTo, NoLooseEnds
    <2>6. CASE EntryStep
        BY <1>3, <2>6 DEF EntryStep, EntryPlaced, EntryRefused, EntryUnanswered, ReadFill, RecordFill,
                          StopPlaced, StopFailed, SavePosition, GoTo, Leave
    <2> QED
        BY <2>1, <2>2, <2>3, <2>4, <2>5, <2>6, StepTouches DEF Touches, EngineStep
<1> QED
    BY <1>2, <1>4 DEF CallKnown

LEMMA AcceptsAsSent ==
    ASSUME "rejected" \notin Faults, WellFormed, Accepts
    PROVE  LET n == Len(book) + 1 IN
           /\ n \notin DOMAIN book /\ DOMAIN book' = DOMAIN book \cup {n} /\ n = Len(book')
           /\ \A j \in DOMAIN book : book'[j] = book[j]
           /\ book'[n].qty = OrderQty
           /\ purpose # "ENTRY" => book'[n].side = "SELL"
           /\ purpose # "STOP_LOSS" => book'[n].status = "OPEN"
           /\ purpose = "STOP_LOSS" => book'[n].stop /\ book'[n].status = "TRIGGER PENDING"
           /\ net' = net
<1> DEFINE o == NewOrder(sid, purpose, OrderQty)
<1>1. /\ purpose # "STOP_LOSS" => o.status = "OPEN"
      /\ purpose = "STOP_LOSS" => o.stop /\ o.status = "TRIGGER PENDING"
    BY DEF NewOrder
<1> HIDE DEF o
<1>2. book' = Append(book, o)
    BY DEF Accepts, Accept, o
<1>3. book'[Len(book) + 1] = o
    BY <1>2 DEF WellFormed, ExchangeTypeOK
<1> QED
    BY <1>1, <1>3, AcceptsEffect

LEMMA AcceptsSurely == NoLooseEnds => "rejected" \notin Faults
BY DEF NoLooseEnds

LEMMA CertainExchange ==
    ASSUME NoLooseEnds, WellFormed, CallKnown, [Next]_vars
    PROVE  \/ UNCHANGED exchangeVars
           \/ Accepts
           \/ \E i \in DOMAIN book : (ExchangeMoves /\ Completes(i)) \/ StopCancels(i)
<1>1. CASE Place
    BY <1>1 DEF Place, PlaceAccepted, PlaceRefused, PlaceUnanswered, Accepts
<1>2. CASE CancelStop
    <2>1. pos.stop # NoOrder => pos.stop \in DOMAIN book
        BY BookOrders DEF WellFormed, CallWF
    <2> QED
        BY <1>2, <2>1 DEF CancelStop, RequestCancel, StopCancels, exchangeVars
<1>3. CASE ExchangeMoves
    BY <1>3 DEF ExchangeMoves, ExchangeStep, Fill, FillPart, Trigger, Completes, Working, NoLooseEnds
<1>4. ~CancelNextEntry
    BY DEF CallKnown, CancelNextEntry
<1> QED
    BY <1>1, <1>2, <1>3, <1>4, StepTouches DEF Touches

LEMMA CompletesEffect ==
    ASSUME WellFormed, NEW i \in DOMAIN book, Completes(i)
    PROVE  /\ DOMAIN book' = DOMAIN book
           /\ \A j \in DOMAIN book : j # i => book'[j] = book[j]
           /\ book'[i].status = "COMPLETE" /\ book'[i].filled = book[i].qty
           /\ net' = IF i \in Buys THEN net + book[i].qty ELSE net - book[i].qty
           /\ book[i].qty \in Nat /\ net \in Int
<1>1. book[i] \in BookOrder /\ ExchangeTypeOK
    BY BookOrders DEF WellFormed
<1>2. book[i].qty \in Nat /\ net \in Int
    BY <1>1 DEF BookOrder, ExchangeTypeOK
<1>3. book[i].qty <= book[i].qty
    BY <1>2
<1>4. Settles(i, "COMPLETE", book[i].qty)
    BY <1>3, Zenon DEF Completes, Working, Settles
<1>5. Settle(i, "COMPLETE", book[i].qty)
    BY DEF Completes
<1> QED
    BY <1>1, <1>2, <1>4, <1>5, SettlesKeeps, SettleEffect

LEMMA StopCancelsEffect ==
    ASSUME WellFormed, NEW i \in DOMAIN book, StopCancels(i)
    PROVE  /\ DOMAIN book' = DOMAIN book
           /\ \A j \in DOMAIN book : j # i => book'[j] = book[j]
           /\ book'[i].status = "CANCELLED"
           /\ net' = net
<1>1. book[i] \in BookOrder /\ ExchangeTypeOK
    BY BookOrders DEF WellFormed
<1>2. 0 <= book[i].qty /\ net \in Int
    <2>1. book[i].qty \in Nat
        BY <1>1 DEF BookOrder
    <2> QED
        BY <1>1, <2>1 DEF ExchangeTypeOK
<1>3. Settles(i, "CANCELLED", 0)
    BY <1>2, Zenon DEF StopCancels, Working, Settles
<1>4. Settle(i, "CANCELLED", 0)
    BY DEF StopCancels
<1>5. net' = IF i \in Buys THEN net + 0 ELSE net - 0
    BY <1>1, <1>4, SettleEffect
<1> QED
    BY <1>1, <1>2, <1>3, <1>5, SettlesKeeps

LEMMA NotABuy ==
    ASSUME BuysInv, BuysPolled, NEW i, StopCancels(i) PROVE i \notin Buys
BY DEF BuysInv, BuysPolled, OpenBuys, StopCancels, CancelStop, Working

LEMMA BuysWholeStep ==
    ASSUME NoLooseEnds, WellFormed, BuysInv, CallKnown, BuysWhole, BuysPolled, [Next]_vars
    PROVE  BuysWhole'
<1>1. \A j \in Buys' : j \in DOMAIN book => j \in Buys
    BY OrdersKept DEF Buys, Kept
<1>2. CASE UNCHANGED exchangeVars
    BY <1>1, <1>2 DEF exchangeVars, BuysWhole, Buys, Filled
<1>3. CASE Accepts
    <2> DEFINE n == Len(book) + 1
    <2>1. /\ DOMAIN book' = DOMAIN book \cup {n}
          /\ \A j \in DOMAIN book : book'[j] = book[j]
          /\ book'[n].side = "BUY" => book'[n].status = "OPEN"
        BY <1>3, AcceptsSurely, AcceptsAsSent
    <2> HIDE DEF n
    <2> QED
        BY <1>1, <2>1 DEF BuysWhole, Buys, Filled
<1>4. ASSUME NEW i \in DOMAIN book, Completes(i) PROVE BuysWhole'
    <2>1. i \in Buys => book[i].qty = LotQty
        BY DEF BuysInv
    <2> QED
        BY <1>1, <1>4, <2>1, CompletesEffect DEF BuysWhole, Buys, Filled
<1>5. ASSUME NEW i \in DOMAIN book, StopCancels(i) PROVE BuysWhole'
    BY <1>1, <1>5, StopCancelsEffect, NotABuy DEF BuysWhole, Buys, Filled
<1> QED
    BY <1>2, <1>3, <1>4, <1>5, CertainExchange

\* Shares come from the entry that is being polled, a lot at a time.
LEMMA SharesStep ==
    ASSUME NoLooseEnds, WellFormed, BuysInv, CallKnown, BuysPolled, [Next]_vars
    PROVE  /\ net' <= LotQty
           /\ net' <= net \/ (pc = "poll" /\ purpose = "ENTRY")
<1>1. net \in Int /\ LotQty \in Nat /\ net <= LotQty
    BY SizesAssumption DEF WellFormed, ExchangeTypeOK, BuysPolled
<1>2. CASE net' = net
    BY <1>1, <1>2
<1>3. ASSUME NEW i \in DOMAIN book, Completes(i)
      PROVE  /\ net' <= LotQty
             /\ net' <= net \/ (pc = "poll" /\ purpose = "ENTRY")
    <2>1. CASE i \in Buys
        <3>1. book[i].status = "OPEN" /\ book[i].qty = LotQty
            BY <1>3, <2>1 DEF BuysInv, Completes, Working
        <3>2. pc = "poll" /\ purpose = "ENTRY" /\ net <= 0
            BY <2>1, <3>1 DEF BuysPolled, OpenBuys
        <3>3. net' = net + LotQty
            BY <1>3, <2>1, <3>1, CompletesEffect
        <3> QED
            BY <1>1, <3>2, <3>3
    <2>2. CASE i \notin Buys
        <3>1. net' = net - book[i].qty /\ book[i].qty \in Nat
            BY <1>3, <2>2, CompletesEffect
        <3> QED
            BY <1>1, <3>1
    <2> QED
        BY <2>1, <2>2
<1> QED
    BY <1>2, <1>3, CertainExchange, AcceptsSurely, AcceptsAsSent, StopCancelsEffect DEF exchangeVars

LEMMA BuysPolledStep ==
    ASSUME NoLooseEnds, WellFormed, BuysInv, CallKnown, BuysPolled, [Next]_vars, ~brokerHalted',
           pc = "place" /\ purpose = "ENTRY" => net <= 0
    PROVE  BuysPolled'
<1>1. net' <= LotQty
    BY SharesStep
<1> SUFFICES ASSUME NEW i \in OpenBuys'
             PROVE  pc' = "poll" /\ purpose' = "ENTRY" /\ i = bid' /\ net' <= 0
    BY <1>1 DEF BuysPolled
<1>2. i \in DOMAIN book' /\ book'[i].side = "BUY" /\ book'[i].status = "OPEN"
    BY DEF OpenBuys, Buys
<1>3. CASE i \in OpenBuys /\ net' = net /\ (UNCHANGED callVars \/ PollPlaced)
    <2>1. pc = "poll" /\ purpose = "ENTRY" /\ i = bid /\ net <= 0
        BY <1>3 DEF BuysPolled
    <2>2. ~PollPlaced
        <3>1. MapKiteStatus("OPEN") \notin TerminalStatuses \cup {"TRIGGER_PENDING"}
            BY DEF MapKiteStatus, StatusMap, TerminalStatuses, PendingNames
        <3>2. ~PollPlaced \/ (book[bid].status # "OPEN" \/ brokerHalted')
            BY <3>1 DEF PollPlaced, Poll, PollSettles, PollTimesOut
        <3>3. book[bid].status = "OPEN"
            BY <1>3, <2>1 DEF OpenBuys
        <3> QED
            BY <3>2, <3>3
    <2> QED
        BY <1>3, <2>1, <2>2 DEF callVars
<1>4. CASE UNCHANGED exchangeVars
    <2>1. i \in OpenBuys /\ net' = net
        BY <1>2, <1>4 DEF exchangeVars, OpenBuys, Buys
    <2>2. pc = "poll"
        BY <2>1 DEF BuysPolled
    <2> QED
        BY <1>3, <2>1, <2>2, WaitingSteps DEF LookupByTag
<1>5. CASE Accepts
    <2>1. OpenBuys = {}
        BY <1>5 DEF Accepts, Place, BuysPolled
    <2>2. i = Len(book') /\ purpose = "ENTRY" /\ net' = net
        <3> DEFINE n == Len(book) + 1
        <3>1. /\ DOMAIN book' = DOMAIN book \cup {n} /\ n = Len(book') /\ net' = net
              /\ \A j \in DOMAIN book : book'[j] = book[j]
              /\ book'[n].side = "BUY" => purpose = "ENTRY"
            BY <1>5, AcceptsSurely, AcceptsAsSent
        <3> HIDE DEF n
        <3> QED
            BY <1>2, <2>1, <3>1 DEF OpenBuys, Buys
    <2>3. pc' = "poll" /\ bid' = Len(book') /\ purpose' = "ENTRY"
        <3>1. book' # book
            BY <1>5, AcceptsSurely, AcceptsAsSent
        <3> QED
            BY <1>5, <2>2, <3>1 DEF Accepts, Place, PlaceAccepted, PlaceRefused, PlaceUnanswered,
                                    NoLooseEnds, exchangeVars
    <2> QED
        BY <1>5, <2>2, <2>3 DEF Accepts, Place
<1>6. ASSUME NEW j \in DOMAIN book, ExchangeMoves, Completes(j)
      PROVE  pc' = "poll" /\ purpose' = "ENTRY" /\ i = bid' /\ net' <= 0
    <2>1. i # j /\ i \in OpenBuys
        BY <1>2, <1>6, CompletesEffect DEF OpenBuys, Buys
    <2>2. pc = "poll" /\ purpose = "ENTRY" /\ i = bid /\ net <= 0
        BY <2>1 DEF BuysPolled
    <2>3. j \notin Buys
        BY <1>6, <2>1, <2>2 DEF BuysInv, BuysPolled, OpenBuys, Completes, Working
    <2>4. net' = net - book[j].qty /\ book[j].qty \in Nat /\ net \in Int
        BY <1>6, <2>3, CompletesEffect
    <2>5. net' <= 0
        BY <2>2, <2>4
    <2> QED
        BY <1>6, <2>2, <2>5 DEF ExchangeMoves, callVars
<1>7. ASSUME NEW j \in DOMAIN book, StopCancels(j) PROVE FALSE
    <2>1. i \in OpenBuys
        BY <1>2, <1>7, StopCancelsEffect DEF OpenBuys, Buys
    <2> QED
        BY <1>7, <2>1 DEF BuysPolled, StopCancels, CancelStop
<1> QED
    BY <1>4, <1>5, <1>6, <1>7, CertainExchange

LEMMA StopSellsLot ==
    ASSUME StopsMatchFills, BuysWhole, NEW i \in DOMAIN book, book[i].stop
    PROVE  book[i].qty = LotQty
BY DEF StopsMatchFills, BuysWhole, Filled

\* A stop that rests goes on resting, or sells the lot, unless it is cancelled.
LEMMA RestsStep ==
    ASSUME NoLooseEnds, WellFormed, BuysInv, StopsMatchFills, CallKnown, BuysWhole, BuysPolled,
           [Next]_vars, NEW i, Rests(i), ~StopCancels(i), ~(pc = "poll" /\ purpose = "ENTRY")
    PROVE  Rests(i)'
<1>1. i \in DOMAIN book /\ book[i].stop
    BY DEF Rests
<1>2. i \in DOMAIN book' /\ book'[i].stop
    BY <1>1, OrdersKept DEF Kept
<1>3. net' <= net /\ net \in Int /\ net' \in Int
    BY SharesStep, BookStep DEF WellFormed, ExchangeTypeOK
<1>4. CASE net <= 0
    <2>1. net' <= 0
        BY <1>3, <1>4
    <2> QED
        BY <1>2, <2>1 DEF Rests
<1>5. CASE book[i].status = "TRIGGER PENDING"
    <2>1. CASE book'[i].status = "TRIGGER PENDING"
        BY <1>2, <2>1 DEF Rests
    <2>2. CASE Completes(i)
        <3>1. book[i].qty = LotQty
            BY <1>1, StopSellsLot
        <3>2. i \notin Buys
            BY <1>5 DEF BuysInv
        <3>3. net' = net - LotQty /\ net <= LotQty /\ LotQty \in Nat
            BY <1>1, <2>2, <3>1, <3>2, CompletesEffect, SizesAssumption DEF BuysPolled
        <3>4. net' <= 0
            BY <1>3, <3>3
        <3> QED
            BY <1>2, <3>4 DEF Rests
    <2>3. book'[i] = book[i] \/ Completes(i)
        BY <1>1, CertainExchange, AcceptsSurely, AcceptsAsSent, CompletesEffect, StopCancelsEffect
        DEF exchangeVars
    <2> QED
        BY <1>5, <2>1, <2>2, <2>3
<1> QED
    BY <1>4, <1>5 DEF Rests

(***************************************************************************)
(* What covers the shares, call by call.                                   *)
(***************************************************************************)
StopIds == \A p \in {dbPosition, pos} : p.stop # NoOrder => book[p.stop].stop

RowWhole == dbPosition # NoPosition => dbPosition.qty = LotQty

\* No entry and no exit is under way.
Between == {"idle", "buy", "sell", "squareOff", "signal"}

Covered == pc \in Between => net <= 0 \/ Rests(dbPosition.stop)

EntryFlat == pc = "risk" \/ (pc \in {"place", "refused"} /\ purpose = "ENTRY") => net <= 0

StopHeld ==
    /\ pc \in {"poll", "placed"} /\ purpose = "STOP_LOSS" => Rests(bid)
    /\ pc = "savePosition" => Rests(pos.stop)

Cancelling == pc \in {"pollCancel", "verify"}

ExitHeld ==
    /\ pc = "cancel" \/ Cancelling \/ (pc \in {"place", "poll"} /\ purpose = "EXIT") => net <= pos.qty
    /\ pc = "cancel" /\ pos.stop # NoOrder => Rests(pos.stop)
    /\ Cancelling => /\ bid = pos.stop /\ bid # NoOrder
                     /\ book[bid].status = "COMPLETE" => net <= 0
    /\ pc = "verify" => bid \in DOMAIN orderInfo
    /\ pc = "poll" /\ purpose = "EXIT" => /\ book[bid].qty = pos.qty
                                          /\ book[bid].status # "OPEN" => net <= 0
    /\ pc = "recordExit" \/ (pc = "placed" /\ purpose = "EXIT") => net <= 0

EntryRecorded ==
    /\ \A k \in EntryRows : dbOrders[k].bid # NoOrder
    /\ pc \in {"poll", "placed"} /\ purpose = "ENTRY" => <<sid, "ENTRY">> \notin EntryRows
    /\ pc \in {"readFill", "recordFill"} => dbOrders[<<sid, "ENTRY">>].status = "SUBMITTED"
    /\ pc = "readFill" \/ (pc = "placed" /\ purpose = "ENTRY") => orderInfo[bid].status = "COMPLETE"

Protection == /\ BuysWhole /\ BuysPolled
              /\ StopIds /\ RowWhole
              /\ Covered /\ EntryFlat /\ StopHeld /\ ExitHeld
              /\ EntryRecorded

ProtectInv == CallKnown /\ (CanTrade => Protection)

LEMMA OthersMove ==
    ASSUME NoLooseEnds, WellFormed, CallKnown, [Next]_vars
    PROVE  \/ EngineStep
           \/ ReceiveCandle
           \/ UNCHANGED <<callVars, dbOrders, dbPosition, orderInfo, brokerHalted>>
<1>1. ~PressStop /\ ~UiStep
    BY DEF NoLooseEnds, CallKnown, WellFormed, UiWF, UiTypeOK, PressStop, UiStep, ScanUnresolved,
           CancelNextEntry, PollCancelledEntry, MarkCancelled
<1>2. CASE ClearKillSwitch \/ Notify \/ ExchangeMoves
    BY <1>2 DEF ClearKillSwitch, Notify, NotifyStaleFeed, NotifyNetworkFailure, NotifyReconnected,
                ExchangeMoves, kiteVars, dbVars
<1>3. CASE UNCHANGED vars
    BY <1>3 DEF vars, dbVars, kiteVars
<1> QED
    BY <1>1, <1>2, <1>3 DEF Next

LEMMA CandleReceived ==
    ASSUME ReceiveCandle
    PROVE  /\ pc = "idle" /\ pc' \in {"idle", "buy", "sell", "squareOff"}
           /\ UNCHANGED <<purpose, bid, pos, exchangeVars, kiteVars, dbVars>>
BY DEF ReceiveCandle, IgnoreCandle, StartCandle, callVars

\* The broker's position, without a stop id, or the recorded one.
LEMMA OpenPositionIs ==
    ASSUME NEW p \in OpenPositions
    PROVE  p = dbPosition \/ (net > 0 /\ p.qty = net /\ p.stop = NoOrder)
BY DEF OpenPositions, BrokerPositions, NoPosition

LEMMA RestingStop ==
    ASSUME WellFormed, StopIds, NEW p \in {dbPosition, pos}, p.stop # NoOrder,
           net <= 0 \/ Rests(p.stop)
    PROVE  Rests(p.stop)
<1>1. p.stop \in DOMAIN book
    BY BookOrders DEF WellFormed, CallWF, DbWF
<1> QED
    BY <1>1 DEF StopIds, Rests

\* The handler's position is the recorded or the reported one, until a stop is placed.
LEMMA PosFrom ==
    ASSUME [Next]_vars
    PROVE  StopPlaced \/ pos' = pos \/ pos'.stop = NoOrder \/ pos' = dbPosition
<1>1. NoPosition.stop = NoOrder
    BY DEF NoPosition
<1>2. CASE ExecuteBuy \/ RiskCheck \/ QueueSignal \/ Place \/ LookupByTag \/ PollPlaced
    BY <1>1, <1>2 DEF ExecuteBuy, RiskCheck, QueueSignal, Place, LookupByTag, PollPlaced, GoTo, Leave
<1>3. CASE ExecuteSell \/ SquareOff
    BY <1>1, <1>3, OpenPositionIs DEF ExecuteSell, SquareOff, GoTo, Leave
<1>4. CASE EntryStep
    BY <1>1, <1>4 DEF EntryStep, EntryPlaced, EntryRefused, EntryUnanswered, ReadFill, RecordFill,
                      StopFailed, SavePosition, GoTo, Leave
<1>5. CASE ExitStep /\ ~SquareOff
    BY <1>1, <1>5 DEF ExitStep, CancelStop, PollCancel, VerifyStop, ExitPlaced, ExitFailed,
                      RecordExit, GoTo, Leave
<1> QED
    BY <1>2, <1>3, <1>4, <1>5, CandleReceived, StepTouches DEF Touches, EngineStep, callVars

LEMMA StopIdsStep ==
    ASSUME WellFormed, StopIds, StopHeld, [Next]_vars PROVE StopIds'
<1>1. ASSUME NEW i \in Known, i # NoOrder, book[i].stop PROVE book'[i].stop
    BY <1>1, BookOrders, OrdersKept DEF Kept
<1>2. ASSUME NEW p \in {dbPosition, pos}, p.stop # NoOrder PROVE book'[p.stop].stop
    BY <1>1, <1>2 DEF StopIds, WellFormed, DbWF, CallWF
<1>3. dbPosition'.stop # NoOrder => book'[dbPosition'.stop].stop
    BY <1>2, RowKeptOrGone DEF SavePosition, NoPosition
<1>4. CASE StopPlaced
    <2>1. pos'.stop = bid
        BY <1>4 DEF StopPlaced, WellFormed, CallWF, CallTypeOK, PosRow
    <2>2. book[bid].stop /\ book' = book
        BY <1>4 DEF StopPlaced, StopHeld, Rests, exchangeVars
    <2> QED
        BY <1>3, <2>1, <2>2 DEF StopIds
<1>5. CASE pos' = pos \/ pos'.stop = NoOrder \/ pos' = dbPosition
    BY <1>2, <1>3, <1>5 DEF StopIds
<1> QED
    BY <1>4, <1>5, PosFrom

LEMMA RowWholeStep ==
    ASSUME WellFormed, StopCallInv, CallKnown, BuysWhole, RowWhole, [Next]_vars PROVE RowWhole'
<1>1. CASE SavePosition
    <2>1. PICK i \in Buys : Filled(i, pos.qty)
        BY <1>1 DEF SavePosition, CallKnown, StopCallInv
    <2>2. pos.qty = LotQty
        BY <2>1 DEF BuysWhole, Filled
    <2> QED
        BY <1>1, <2>2 DEF SavePosition, RowWhole
<1> QED
    BY <1>1, RowKeptOrGone DEF RowWhole

\* An entry that is recorded as it should be does not end without its stop.
LEMMA EntryGoesOn ==
    ASSUME NoLooseEnds, EntryRecorded, EntryPlaced \/ ReadFill \/ RecordFill
    PROVE  pc' \in {"readFill", "recordFill", "place"}
<1>1. CASE EntryPlaced
    BY <1>1 DEF EntryPlaced, InsertFails, EntryRecorded, EntryRows, NoLooseEnds, GoTo
<1>2. CASE ReadFill
    BY <1>2 DEF ReadFill, EntryRecorded
<1>3. CASE RecordFill
    <2>1. UpdateAllowed(<<sid, "ENTRY">>, "COMPLETE")
        BY <1>3 DEF RecordFill, EntryRecorded, UpdateAllowed, TerminalStatuses
    <2> QED
        BY <1>3, <2>1 DEF RecordFill
<1> QED
    BY <1>1, <1>2, <1>3

LEMMA BetweenFrom ==
    ASSUME NoLooseEnds, WellFormed, RecordInv, CallKnown, EntryRecorded, [Next]_vars, ~halted',
           pc' \in Between
    PROVE  \/ pc \in Between /\ dbPosition' = dbPosition
           \/ pc = "risk" \/ (pc = "refused" /\ purpose = "ENTRY")
           \/ SavePosition
           \/ VerifyStop /\ orderInfo[bid].status = "COMPLETE"
           \/ pc = "recordExit"
<1> USE DEF Between
<1>1. CASE UNCHANGED <<callVars, dbOrders, dbPosition, orderInfo, brokerHalted>>
    BY <1>1 DEF callVars
<1>2. CASE ReceiveCandle
    BY <1>2, CandleReceived DEF dbVars
<1>3. CASE ExecuteBuy \/ ExecuteSell \/ RiskCheck \/ SquareOff \/ QueueSignal
    BY <1>3 DEF ExecuteBuy, ExecuteSell, RiskCheck, SquareOff, QueueSignal, GoTo, Leave, dbVars
<1>4. CASE Place \/ LookupByTag \/ PollPlaced \/ CancelStop \/ PollCancel
    BY <1>4 DEF Place, LookupByTag, PollPlaced, CancelStop, PollCancel, GoTo
<1>5. CASE EntryStep
    BY <1>5, EntryGoesOn DEF EntryStep, EntryRefused, EntryUnanswered, StopPlaced, StopFailed, CallKnown
<1>6. CASE VerifyStop \/ ExitPlaced \/ ExitFailed \/ RecordExit
    BY <1>6 DEF VerifyStop, ExitPlaced, ExitFailed, RecordExit, GoTo, Halt
<1> QED
    BY <1>1, <1>2, <1>3, <1>4, <1>5, <1>6, OthersMove DEF EngineStep, ExitStep

LEMMA CoveredStep ==
    ASSUME NoLooseEnds, WellFormed, RecordInv, CallKnown, Protection, [Next]_vars, ~halted'
    PROVE  Covered'
<1> SUFFICES ASSUME pc' \in Between PROVE net' <= 0 \/ Rests(dbPosition.stop)'
    BY DEF Covered
<1>1. net \in Int /\ net' \in Int
    BY BookStep DEF WellFormed, ExchangeTypeOK
<1>2. ASSUME net <= 0, pc # "poll" PROVE net' <= 0
    <2>1. net' <= net
        BY <1>2, SharesStep DEF RecordInv, Protection
    <2> QED
        BY <1>1, <1>2, <2>1
<1>3. CASE pc \in Between /\ dbPosition' = dbPosition
    <2>1. pc \notin {"poll", "cancel"}
        BY <1>3 DEF Between
    <2>2. CASE Rests(dbPosition.stop)
        <3>1. ~StopCancels(dbPosition.stop)
            BY <2>1 DEF StopCancels, CancelStop
        <3>2. Rests(dbPosition.stop)'
            BY <1>3, <2>1, <2>2, <3>1, RestsStep DEF RecordInv, Protection, Rests
        <3> QED
            BY <3>2
    <2> QED
        BY <1>2, <1>3, <2>1, <2>2 DEF Protection, Covered
<1>4. CASE pc = "risk" \/ (pc = "refused" /\ purpose = "ENTRY")
    BY <1>2, <1>4 DEF Protection, EntryFlat
<1>5. CASE SavePosition
    <2>1. Rests(pos.stop) /\ dbPosition' = pos /\ book' = book /\ net' = net
        BY <1>5 DEF SavePosition, Protection, StopHeld, exchangeVars
    <2> QED
        BY <2>1 DEF Rests
<1>6. CASE VerifyStop /\ orderInfo[bid].status = "COMPLETE"
    <2>1. pc = "verify" /\ bid \in DOMAIN orderInfo
        BY <1>6 DEF VerifyStop, Protection, ExitHeld
    <2>2. book[bid].status = "COMPLETE"
        BY <1>6, <2>1 DEF RecordInv, CacheInv, Filled
    <2> QED
        BY <1>2, <2>1, <2>2 DEF Protection, ExitHeld, Cancelling
<1>7. CASE pc = "recordExit"
    BY <1>2, <1>7 DEF Protection, ExitHeld
<1> QED
    BY <1>3, <1>4, <1>5, <1>6, <1>7, BetweenFrom DEF Protection

LEMMA EntryFlatStep ==
    ASSUME NoLooseEnds, WellFormed, RecordInv, CallKnown, Protection, [Next]_vars
    PROVE  EntryFlat'
<1> DEFINE Coming == pc = "risk" \/ (pc \in {"place", "refused"} /\ purpose = "ENTRY")
<1> SUFFICES ASSUME Coming' PROVE net' <= 0
    BY DEF EntryFlat
<1>1. ASSUME net <= 0, pc # "poll" PROVE net' <= 0
    <2>1. net' <= net
        BY <1>1, SharesStep DEF RecordInv, Protection
    <2>2. net \in Int /\ net' \in Int
        BY BookStep DEF WellFormed, ExchangeTypeOK
    <2> QED
        BY <1>1, <2>1, <2>2
<1>2. CASE Coming
    BY <1>1, <1>2 DEF Protection, EntryFlat
<1>3. CASE ExecuteBuy
    <2>1. pc = "buy" /\ NoPosition \in OpenPositions
        BY <1>3 DEF ExecuteBuy, Leave
    <2>2. dbPosition = NoPosition
        BY <2>1, OpenPositionIs DEF NoPosition
    <2>3. ~Rests(dbPosition.stop)
        <3>1. NoPosition.stop = NoOrder
            BY DEF NoPosition
        <3>2. NoOrder \notin DOMAIN book
            BY DEF NoOrder, WellFormed, ExchangeTypeOK
        <3> QED
            BY <2>2, <3>1, <3>2 DEF Rests
    <2>4. net <= 0
        BY <2>1, <2>3 DEF Protection, Covered, Between
    <2> QED
        BY <1>1, <2>1, <2>4
<1>4. Coming \/ ExecuteBuy
    <2>1. CASE UNCHANGED <<callVars, dbOrders, dbPosition, orderInfo, brokerHalted>>
        BY <2>1 DEF callVars
    <2>2. CASE ReceiveCandle
        BY <2>2, CandleReceived
    <2>3. CASE ExecuteSell \/ RiskCheck \/ QueueSignal
        BY <2>3 DEF ExecuteSell, RiskCheck, QueueSignal, GoTo, Leave
    <2>4. CASE Place \/ LookupByTag \/ PollPlaced
        BY <2>4 DEF Place, LookupByTag, PollPlaced, GoTo
    <2>5. CASE EntryStep
        BY <2>5 DEF EntryStep, EntryPlaced, EntryRefused, EntryUnanswered, ReadFill, RecordFill,
                    StopPlaced, StopFailed, SavePosition, GoTo, Leave
    <2>6. CASE ExitStep
        BY <2>6, AfterExitType DEF ExitStep, SquareOff, CancelStop, PollCancel, VerifyStop, ExitPlaced,
                                   ExitFailed, RecordExit, GoTo, Leave
    <2> QED
        BY <2>1, <2>2, <2>3, <2>4, <2>5, <2>6, OthersMove DEF EngineStep
<1> QED
    BY <1>2, <1>3, <1>4

LEMMA StopHeldStep ==
    ASSUME NoLooseEnds, WellFormed, RecordInv, CallKnown, Protection, [Next]_vars, ~halted'
    PROVE  StopHeld'
<1> DEFINE Placed == pc \in {"poll", "placed"} /\ purpose = "STOP_LOSS"
<1>1. ASSUME Placed \/ PollPlaced, Placed', bid' = bid PROVE Rests(bid)'
    <2>1. Rests(bid)
        BY <1>1 DEF PollPlaced, GoTo, Protection, StopHeld
    <2>2. ~StopCancels(bid) /\ ~(pc = "poll" /\ purpose = "ENTRY")
        BY <1>1 DEF PollPlaced, GoTo, StopCancels, CancelStop
    <2>3. \A i : Rests(i) /\ ~StopCancels(i) => Rests(i)'
        BY <2>2, RestsStep DEF RecordInv, Protection
    <2> QED
        BY <1>1, <2>1, <2>2, <2>3 DEF Rests
<1>2. ASSUME pc = "savePosition", pc' = "savePosition", pos' = pos PROVE Rests(pos.stop)'
    <2>1. Rests(pos.stop) /\ ~StopCancels(pos.stop)
        BY <1>2 DEF Protection, StopHeld, StopCancels, CancelStop
    <2>2. \A i : Rests(i) /\ ~StopCancels(i) => Rests(i)'
        BY <1>2, RestsStep DEF RecordInv, Protection
    <2> QED
        BY <1>2, <2>1, <2>2 DEF Rests
<1>3. CASE UNCHANGED <<callVars, dbOrders, dbPosition, orderInfo, brokerHalted>>
    BY <1>1, <1>2, <1>3 DEF StopHeld, callVars
<1>4. CASE Place
    <2> SUFFICES ASSUME pc' = "poll", purpose' = "STOP_LOSS" PROVE Rests(bid)'
        BY <1>4 DEF StopHeld, Place
    <2>1. Accepts /\ bid' = Len(book')
        BY <1>4 DEF Place, PlaceAccepted, Accepts
    <2>2. purpose = "STOP_LOSS"
        BY <1>4 DEF Place
    <2> DEFINE n == Len(book) + 1
    <2>3. /\ DOMAIN book' = DOMAIN book \cup {n} /\ n = Len(book')
          /\ book'[n].stop /\ book'[n].status = "TRIGGER PENDING"
        BY <2>1, <2>2, AcceptsSurely, AcceptsAsSent
    <2> HIDE DEF n
    <2> QED
        BY <2>1, <2>3 DEF Rests
<1>5. CASE PollPlaced
    <2>1. bid' = bid /\ pc' = "placed"
        BY <1>5 DEF PollPlaced, GoTo
    <2> QED
        BY <1>1, <1>5, <2>1 DEF StopHeld
<1>6. CASE StopPlaced
    <2>1. Rests(bid) /\ book' = book /\ net' = net
        BY <1>6 DEF StopPlaced, Protection, StopHeld, exchangeVars
    <2>2. pos'.stop = bid /\ pc' = "savePosition"
        BY <1>6 DEF StopPlaced, WellFormed, CallWF, CallTypeOK, PosRow
    <2> QED
        BY <2>1, <2>2 DEF Rests, StopHeld
<1>7. CASE pc' \notin {"poll", "placed", "savePosition"}
    BY <1>7 DEF StopHeld
<1>8. \/ UNCHANGED <<callVars, dbOrders, dbPosition, orderInfo, brokerHalted>>
      \/ Place \/ PollPlaced \/ StopPlaced
      \/ pc' \notin {"poll", "placed", "savePosition"}
    <2>1. CASE ReceiveCandle
        BY <2>1, CandleReceived
    <2>2. CASE ExecuteBuy \/ ExecuteSell \/ RiskCheck \/ QueueSignal \/ LookupByTag
        BY <2>2 DEF ExecuteBuy, ExecuteSell, RiskCheck, QueueSignal, LookupByTag, GoTo, Leave, CallKnown
    <2>3. CASE EntryStep
        BY <2>3 DEF EntryStep, EntryPlaced, EntryRefused, EntryUnanswered, ReadFill, RecordFill,
                    StopFailed, SavePosition, GoTo, Leave, Halt
    <2>4. CASE ExitStep
        BY <2>4, AfterExitType DEF ExitStep, SquareOff, CancelStop, PollCancel, VerifyStop, ExitPlaced,
                                   ExitFailed, RecordExit, GoTo, Leave
    <2> QED
        BY <2>1, <2>2, <2>3, <2>4, OthersMove DEF EngineStep
<1> QED
    BY <1>3, <1>4, <1>5, <1>6, <1>7, <1>8

\* Every entry has its row, and what the engine waits for has not one yet.
LEMMA EntryRecordedStep ==
    ASSUME NoLooseEnds, WellFormed, RecordInv, CallKnown, Protection, [Next]_vars, ~brokerHalted'
    PROVE  EntryRecorded'
<1> DEFINE key    == <<sid, "ENTRY">>
           Others == UNCHANGED <<callVars, dbOrders, dbPosition, orderInfo, brokerHalted>>
<1>1. EntryRecorded
    BY DEF Protection
<1>2. \A k \in EntryRows' : dbOrders'[k].bid # NoOrder
    <2>1. CASE EntryRows' = EntryRows
        BY <1>1, <2>1, RowKept DEF EntryRecorded, EntryRows
    <2>2. CASE EntryPlaced /\ EntryRows' = EntryRows \cup {key}
        <3>1. InsertOrder(key, "SUBMITTED", bid)
            BY <2>2, EntryGoesOn, <1>1 DEF EntryPlaced, Leave
        <3>2. dbOrders'[key].bid = bid /\ bid # NoOrder
            BY <2>2, <3>1 DEF InsertOrder, EntryPlaced, WellFormed, CallWF
        <3> QED
            BY <1>1, <2>2, <3>2, RowKept DEF EntryRecorded, EntryRows
    <2> QED
        BY <2>1, <2>2, EntryRowsGrow DEF EntryUnanswered, CallKnown
<1>3. CASE Others
    BY <1>1, <1>2, <1>3 DEF EntryRecorded, callVars, EntryRows
<1>4. CASE Place
    <2>1. purpose = "ENTRY" => key \notin EntryRows
        <3> SUFFICES ASSUME purpose = "ENTRY", key \in EntryRows PROVE FALSE
            OBVIOUS
        <3>1. /\ dbOrders[key].bid # NoOrder
              /\ dbOrders[key].bid \in Buys /\ book[dbOrders[key].bid].tag = sid
            BY <1>1 DEF EntryRecorded, RecordInv, EntryRowsNameTheirOrder
        <3>2. sid \in Tags
            BY <3>1 DEF Tags, Buys
        <3> QED
            BY <1>4, <3>2 DEF Place, RecordInv, TagInv, EntryComing
    <2> QED
        BY <1>2, <1>4, <2>1 DEF Place, EntryRecorded, EntryRows, dbVars
<1>5. CASE PollPlaced
    <2>1. /\ pc = "poll" /\ pc' = "placed" /\ UNCHANGED <<sid, purpose, bid, dbOrders>>
        BY <1>5 DEF PollPlaced, GoTo, dbVars
    <2>2. ASSUME purpose = "ENTRY" PROVE orderInfo'[bid].status = "COMPLETE"
        <3>1. bid \in Buys
            BY <2>1, <2>2 DEF RecordInv, EntryCallInv, EntryOrder
        <3>2. PollSettles(bid)
            BY <1>5 DEF PollPlaced, Poll, PollTimesOut
        <3>3. MapKiteStatus("OPEN") \notin TerminalStatuses \cup {"TRIGGER_PENDING"}
            BY DEF MapKiteStatus, StatusMap, TerminalStatuses, PendingNames
        <3>4. book[bid].status = "COMPLETE"
            BY <3>1, <3>2, <3>3 DEF PollSettles, Protection, BuysWhole, Filled
        <3>5. MapKiteStatus("COMPLETE") = "COMPLETE"
            BY DEF MapKiteStatus, StatusMap, TerminalStatuses, PendingNames
        <3> QED
            BY <3>2, <3>4, <3>5 DEF PollSettles, Remember
    <2> QED
        BY <1>1, <1>2, <2>1, <2>2 DEF EntryRecorded, EntryRows
<1>6. CASE EntryPlaced
    <2>1. InsertOrder(key, "SUBMITTED", bid) /\ GoTo("readFill")
        BY <1>1, <1>6, EntryGoesOn DEF EntryPlaced, Leave
    <2>2. pc = "placed" /\ purpose = "ENTRY" /\ UNCHANGED <<sid, purpose, bid, orderInfo>>
        BY <1>6, <2>1 DEF EntryPlaced, GoTo, kiteVars
    <2>3. dbOrders'[key].status = "SUBMITTED"
        BY <2>1 DEF InsertOrder
    <2> QED
        BY <1>1, <1>2, <2>1, <2>2, <2>3 DEF EntryRecorded, GoTo
<1>7. CASE ReadFill
    <2>1. /\ pc = "readFill" /\ pc' = "recordFill" /\ sid' = sid /\ dbOrders' = dbOrders
        BY <1>1, <1>7, EntryGoesOn DEF ReadFill, Leave, dbVars
    <2> QED
        BY <1>1, <1>2, <2>1 DEF EntryRecorded
<1>8. CASE \/ pc' \notin {"poll", "placed", "readFill", "recordFill"}
           \/ pc' \in {"poll", "placed"} /\ purpose' # "ENTRY"
    BY <1>2, <1>8 DEF EntryRecorded
<1>9. \/ Others \/ Place \/ PollPlaced \/ EntryPlaced \/ ReadFill
      \/ pc' \notin {"poll", "placed", "readFill", "recordFill"}
    <2>1. CASE ReceiveCandle
        BY <2>1, CandleReceived
    <2>2. CASE ExecuteBuy \/ ExecuteSell \/ RiskCheck \/ QueueSignal \/ LookupByTag
        BY <2>2 DEF ExecuteBuy, ExecuteSell, RiskCheck, QueueSignal, LookupByTag, GoTo, Leave, CallKnown
    <2>3. CASE EntryStep
        BY <2>3 DEF EntryStep, EntryRefused, EntryUnanswered, RecordFill, StopPlaced, StopFailed,
                    SavePosition, GoTo, Leave
    <2>4. CASE ExitStep
        BY <2>4, AfterExitType DEF ExitStep, SquareOff, CancelStop, PollCancel, VerifyStop, ExitPlaced,
                                   ExitFailed, RecordExit, GoTo, Leave
    <2> QED
        BY <2>1, <2>2, <2>3, <2>4, OthersMove DEF EngineStep
<1> QED
    BY <1>3, <1>4, <1>5, <1>6, <1>7, <1>8, <1>9

\* An order at rest, a stop or an exit, that turns COMPLETE has sold its quantity.
LEMMA SaleCompletes ==
    ASSUME NoLooseEnds, WellFormed, RecordInv, CallKnown, Protection, [Next]_vars,
           NEW i \in DOMAIN book, i \notin OpenBuys, book'[i].status # book[i].status, ~StopCancels(i),
           net <= book[i].qty
    PROVE  net' <= 0
<1>1. Completes(i)
    BY CertainExchange, AcceptsSurely, AcceptsAsSent, CompletesEffect, StopCancelsEffect DEF exchangeVars
<1>2. i \notin Buys
    BY <1>1 DEF Completes, Working, OpenBuys, RecordInv, BuysInv
<1>3. net' = net - book[i].qty /\ book[i].qty \in Nat /\ net \in Int
    BY <1>1, <1>2, CompletesEffect
<1> QED
    BY <1>3

LEMMA ExitBegins ==
    ASSUME WellFormed, Protection, ExecuteSell \/ SquareOff, pc' = "cancel"
    PROVE  ExitHeld'
<1>1. PICK p \in OpenPositions : pos' = p /\ p # NoPosition
    BY DEF ExecuteSell, SquareOff, GoTo, Leave
<1>2. pc \in Between /\ UNCHANGED <<book, net>> /\ net \in Int
    BY DEF ExecuteSell, SquareOff, Between, exchangeVars, WellFormed, ExchangeTypeOK
<1>3. net <= p.qty
    BY <1>1, <1>2, OpenPositionIs DEF Protection, RowWhole, BuysPolled
<1>4. p.stop # NoOrder => Rests(p.stop)
    BY <1>1, <1>2, OpenPositionIs, RestingStop DEF Protection, Covered
<1>5. p.stop # NoOrder => Rests(p.stop)'
    BY <1>2, <1>4 DEF Rests
<1> QED
    BY <1>1, <1>2, <1>3, <1>5 DEF ExitHeld, Cancelling, Rests

\* While the exit waits, what it waits for may sell the shares.
LEMMA ExitWaits ==
    ASSUME NoLooseEnds, WellFormed, RecordInv, CallKnown, Protection, [Next]_vars,
           UNCHANGED <<callVars, dbOrders, dbPosition, orderInfo, brokerHalted>>
    PROVE  ExitHeld'
<1>1. /\ pc' = pc /\ purpose' = purpose /\ bid' = bid /\ pos' = pos /\ orderInfo' = orderInfo
      /\ \A i : ~StopCancels(i)
    BY DEF callVars, StopCancels, CancelStop
<1>2. net \in Int /\ net' \in Int /\ LotQty \in Nat
    BY BookStep, SizesAssumption DEF WellFormed, ExchangeTypeOK
<1>3. ~(pc = "poll" /\ purpose = "ENTRY") => net' <= net
    BY SharesStep DEF RecordInv, Protection
<1>4. pc = "cancel" \/ Cancelling \/ (pc \in {"place", "poll"} /\ purpose = "EXIT") => net' <= pos.qty
    <2>1. pos.qty \in Nat
        BY DEF WellFormed, CallWF, CallTypeOK, PosRow
    <2> QED
        BY <1>2, <1>3, <2>1 DEF Protection, ExitHeld, Cancelling
<1>5. pc = "cancel" /\ pos.stop # NoOrder => Rests(pos.stop)'
    <2> SUFFICES ASSUME pc = "cancel", pos.stop # NoOrder PROVE Rests(pos.stop)'
        OBVIOUS
    <2>1. Rests(pos.stop) /\ ~StopCancels(pos.stop)
        BY <1>1 DEF Protection, ExitHeld
    <2>2. \A i : Rests(i) /\ ~StopCancels(i) => Rests(i)'
        BY RestsStep DEF RecordInv, Protection
    <2> QED
        BY <1>1, <2>1, <2>2 DEF Rests
<1>6. Cancelling => /\ bid = pos.stop /\ bid # NoOrder
                    /\ book'[bid].status = "COMPLETE" => net' <= 0
    <2> SUFFICES ASSUME Cancelling, book'[bid].status = "COMPLETE" PROVE net' <= 0
        BY DEF Protection, ExitHeld
    <2>1. bid \in DOMAIN book /\ book[bid].stop
        BY BookOrders DEF Protection, ExitHeld, StopIds, WellFormed, CallWF
    <2>2. book[bid].qty = LotQty /\ bid \notin OpenBuys
        BY <2>1, StopSellsLot DEF RecordInv, Protection, BuysPolled, Cancelling
    <2>3. CASE book[bid].status = "COMPLETE"
        BY <1>2, <1>3, <2>3 DEF Protection, ExitHeld, Cancelling
    <2>4. CASE book[bid].status # "COMPLETE"
        BY <1>1, <2>1, <2>2, <2>4, SaleCompletes DEF Protection, BuysPolled
    <2> QED
        BY <2>3, <2>4
<1>7. pc = "poll" /\ purpose = "EXIT" => /\ book'[bid].qty = pos.qty
                                         /\ book'[bid].status # "OPEN" => net' <= 0
    <2> SUFFICES ASSUME pc = "poll", purpose = "EXIT"
                 PROVE  /\ book'[bid].qty = pos.qty
                        /\ book'[bid].status # "OPEN" => net' <= 0
        OBVIOUS
    <2>1. bid \in DOMAIN book /\ book[bid].qty = pos.qty /\ net <= pos.qty
        BY BookOrders DEF Protection, ExitHeld, WellFormed, CallWF
    <2>2. book'[bid].qty = pos.qty /\ bid \notin OpenBuys
        BY <2>1, OrdersKept DEF Kept, Protection, BuysPolled
    <2>3. CASE book[bid].status # "OPEN"
        BY <1>2, <1>3, <2>2, <2>3 DEF Protection, ExitHeld
    <2>4. CASE book[bid].status = "OPEN" /\ book'[bid].status # "OPEN"
        BY <1>1, <2>1, <2>2, <2>4, SaleCompletes
    <2> QED
        BY <2>2, <2>3, <2>4
<1>8. pc = "recordExit" \/ (pc = "placed" /\ purpose = "EXIT") => net' <= 0
    BY <1>2, <1>3 DEF Protection, ExitHeld
<1>9. pc = "verify" => bid \in DOMAIN orderInfo
    BY DEF Protection, ExitHeld
<1> QED
    BY <1>1, <1>4, <1>5, <1>6, <1>7, <1>8, <1>9 DEF ExitHeld, Cancelling

LEMMA ExitHeldStep ==
    ASSUME NoLooseEnds, WellFormed, RecordInv, CallKnown, Protection, [Next]_vars,
           ~halted', ~brokerHalted'
    PROVE  ExitHeld'
<1>1. ExitHeld /\ net \in Int
    BY DEF Protection, WellFormed, ExchangeTypeOK
<1>2. CASE UNCHANGED <<callVars, dbOrders, dbPosition, orderInfo, brokerHalted>>
    BY <1>2, ExitWaits
<1>3. CASE (ExecuteSell \/ SquareOff) /\ pc' = "cancel"
    BY <1>3, ExitBegins
<1>4. CASE CancelStop
    <2>1. pc = "cancel" /\ pos' = pos /\ net <= pos.qty
        BY <1>1, <1>4 DEF CancelStop, ExitHeld
    <2>2. CASE pos.stop = NoOrder
        BY <2>1, <2>2, <1>4 DEF CancelStop, ExitHeld, Cancelling, exchangeVars
    <2>3. CASE pos.stop # NoOrder
        <3>1. /\ pc' = "pollCancel" /\ bid' = pos.stop /\ purpose' = purpose
              /\ RequestCancel(pos.stop) /\ Rests(pos.stop)
            BY <1>1, <1>4, <2>1, <2>3 DEF CancelStop, ExitHeld
        <3>2. UNCHANGED exchangeVars \/ StopCancels(pos.stop)
            BY <1>4, <3>1 DEF RequestCancel, StopCancels
        <3>3. /\ net' = net
              /\ book'[pos.stop].status = "COMPLETE" => net <= 0
            BY <3>1, <3>2, StopCancelsEffect DEF Rests, exchangeVars
        <3>4. purpose # "EXIT"
            BY <2>1 DEF CallKnown
        <3> QED
            BY <2>1, <2>3, <3>1, <3>3, <3>4 DEF ExitHeld, Cancelling
    <2> QED
        BY <2>2, <2>3
<1>5. CASE PollCancel
    <2>1. /\ pc = "pollCancel" /\ pc' = "verify" /\ UNCHANGED <<purpose, bid, pos, book, net>>
          /\ bid \in DOMAIN orderInfo'
        BY <1>5 DEF PollCancel, GoTo, Poll, PollSettles, PollTimesOut, Remember, exchangeVars
    <2> QED
        BY <1>1, <2>1 DEF ExitHeld, Cancelling
<1>6. CASE VerifyStop /\ pc' = "place"
    BY <1>1, <1>6, AfterExitType DEF VerifyStop, Leave, ExitHeld, Cancelling, exchangeVars
<1>7. CASE Place
    <2> SUFFICES ASSUME pc' = "poll", purpose' = "EXIT" PROVE ExitHeld'
        BY <1>7 DEF Place, ExitHeld, Cancelling
    <2>1. Accepts /\ bid' = Len(book') /\ pos' = pos /\ pc = "place" /\ purpose = "EXIT"
        BY <1>7 DEF Place, PlaceAccepted, Accepts
    <2>2. book'[Len(book')].qty = pos.qty /\ book'[Len(book')].status = "OPEN" /\ net' = net
        BY <2>1, AcceptsSurely, AcceptsAsSent DEF OrderQty
    <2> QED
        BY <1>1, <2>1, <2>2 DEF ExitHeld, Cancelling
<1>8. CASE PollPlaced
    <2>1. /\ pc = "poll" /\ pc' = "placed" /\ UNCHANGED <<purpose, bid, pos, book, net>>
          /\ PollSettles(bid)
        BY <1>8 DEF PollPlaced, GoTo, Poll, PollSettles, PollTimesOut, exchangeVars
    <2>2. book[bid].status # "OPEN"
        BY <2>1 DEF PollSettles, MapKiteStatus, StatusMap, TerminalStatuses, PendingNames
    <2> QED
        BY <1>1, <2>1, <2>2 DEF ExitHeld, Cancelling
<1>9. CASE ExitPlaced
    BY <1>1, <1>9 DEF ExitPlaced, GoTo, ExitHeld, Cancelling, exchangeVars
<1> DEFINE Elsewhere == /\ pc' \notin {"cancel", "pollCancel", "verify", "recordExit"}
                        /\ pc' \in {"place", "poll", "placed"} => purpose' # "EXIT"
<1>10. CASE Elsewhere
    BY <1>10 DEF ExitHeld, Cancelling
<1>11. CASE ReceiveCandle
    BY <1>10, <1>11, CandleReceived
<1>12. CASE ExecuteBuy \/ ExecuteSell \/ RiskCheck \/ QueueSignal \/ LookupByTag
    BY <1>3, <1>10, <1>12 DEF ExecuteBuy, ExecuteSell, RiskCheck, QueueSignal, LookupByTag, GoTo, Leave,
                              CallKnown
<1>13. CASE EntryStep
    BY <1>10, <1>13 DEF EntryStep, EntryPlaced, EntryRefused, EntryUnanswered, ReadFill, RecordFill,
                        StopPlaced, StopFailed, SavePosition, GoTo, Leave, CallKnown
<1>14. CASE ExitStep
    BY <1>3, <1>4, <1>5, <1>6, <1>9, <1>10, <1>14, AfterExitType
    DEF ExitStep, SquareOff, VerifyStop, ExitFailed, RecordExit, GoTo, Leave
<1> QED
    BY <1>2, <1>7, <1>8, <1>11, <1>12, <1>13, <1>14, OthersMove DEF EngineStep

LEMMA ProtectStep ==
    ASSUME NoLooseEnds, WellFormed, RecordInv, ProtectInv, [Next]_vars PROVE ProtectInv'
<1>1. CallKnown /\ CallKnown'
    BY CallKnownStep DEF ProtectInv, RecordInv
<1> SUFFICES ASSUME CanTrade' PROVE Protection'
    BY <1>1 DEF ProtectInv
<1>2. ~halted' /\ ~brokerHalted' /\ CanTrade
    BY HaltedStays, BrokerHaltStays DEF CanTrade
<1>3. Protection
    BY <1>2 DEF ProtectInv
<1>4. BuysWhole'
    BY <1>1, <1>3, BuysWholeStep DEF Protection, RecordInv
<1>5. BuysPolled'
    BY <1>1, <1>2, <1>3, BuysPolledStep DEF Protection, RecordInv, EntryFlat
<1>6. StopIds' /\ RowWhole'
    BY <1>1, <1>3, StopIdsStep, RowWholeStep DEF Protection, RecordInv
<1>7. Covered' /\ EntryFlat' /\ StopHeld'
    BY <1>1, <1>2, <1>3, CoveredStep, EntryFlatStep, StopHeldStep
<1>8. ExitHeld' /\ EntryRecorded'
    BY <1>1, <1>2, <1>3, ExitHeldStep, EntryRecordedStep
<1> QED
    BY <1>4, <1>5, <1>6, <1>7, <1>8 DEF Protection

LEMMA ProtectInit == Init => ProtectInv
<1> SUFFICES ASSUME Init PROVE ProtectInv
    OBVIOUS
<1>1. /\ book = << >> /\ net = 0 /\ pc = "idle" /\ purpose = "ENTRY" /\ LotQty \in Nat
      /\ dbPosition = NoPosition /\ pos = NoPosition /\ EntryRows = {}
    BY SizesAssumption DEF Init, DbInit, EntryRows
<1>2. Buys = {} /\ OpenBuys = {}
    BY <1>1 DEF Buys, OpenBuys
<1>3. BuysWhole /\ BuysPolled /\ StopIds /\ RowWhole
    BY <1>1, <1>2 DEF BuysWhole, BuysPolled, StopIds, RowWhole, NoPosition
<1>4. Covered /\ EntryFlat /\ StopHeld /\ ExitHeld /\ EntryRecorded
    BY <1>1 DEF Covered, EntryFlat, StopHeld, ExitHeld, Cancelling, EntryRecorded
<1> QED
    BY <1>3, <1>4, CallKnownInit DEF ProtectInv, Protection

\* Every open position has a stop (models.py:193): as long as no order is lost,
\* rejected or filled in part, no INSERT fails and nobody presses the emergency
\* stop, an engine that goes on trading holds shares only behind a stop at rest
\* - with refused orders, failing cancels, polls that time out, a lost session
\* and failing position queries.
THEOREM OpenPositionsProtected ==
    ASSUME NoLooseEnds PROVE Spec => []OpenPositionProtected
<1>1. WellFormed /\ RecordInv /\ ProtectInv /\ [Next]_vars => ProtectInv'
    BY ProtectStep
<1>2. WellFormed /\ ProtectInv => OpenPositionProtected
    <2> SUFFICES ASSUME WellFormed, ProtectInv, pc = "idle", CanTrade, net > 0
                 PROVE  /\ dbPosition # NoPosition
                        /\ dbPosition.stop # NoOrder
                        /\ book[dbPosition.stop].status = "TRIGGER PENDING"
        BY DEF OpenPositionProtected, CanTrade
    <2>1. ~(net <= 0)
        BY DEF WellFormed, ExchangeTypeOK
    <2>2. Rests(dbPosition.stop)
        BY <2>1 DEF ProtectInv, Protection, Covered, Between
    <2>3. NoOrder \notin DOMAIN book /\ NoPosition.stop = NoOrder
        BY DEF NoOrder, NoPosition, WellFormed, ExchangeTypeOK
    <2> QED
        BY <2>1, <2>2, <2>3 DEF Rests
<1> QED
    BY <1>1, <1>2, ProtectInit, RecordAlways, PTL DEF Spec

(***************************************************************************)
(* Sales.  Each booking stands for an order of its own that has sold what  *)
(* is booked: an exit just polled, or the stop of the recorded position,   *)
(* which the booking deletes.                                              *)
(***************************************************************************)

\* No order is lost, rejected, filled in part, or given up on while it is open.
SalesSettle == {"rejected", "partial", "network", "interim"} \cap Faults = {}

SellsFor(i, q) == i \in DOMAIN book \ Buys /\ book[i].qty = q

SalesWhole == \A i \in DOMAIN book \ Buys : book[i].status = "COMPLETE" => book[i].filled = book[i].qty

StopsRecorded ==
    \A p \in {dbPosition, pos} : p.stop # NoOrder => SellsFor(p.stop, p.qty) /\ book[p.stop].stop

\* What the handler knows of the sale it waits for, call by call.
SaleAwaited ==
    /\ pc # "lookup"
    /\ pc = "recordExit" \/ (pc \in {"poll", "placed"} /\ purpose # "ENTRY") => SellsFor(bid, pos.qty)
    /\ pc \in {"poll", "placed"} /\ purpose = "STOP_LOSS" => book[bid].stop
    /\ pc = "poll" /\ purpose = "EXIT" => ~book[bid].stop /\ book[bid].status \in {"OPEN", "COMPLETE"}
    /\ pc = "recordExit" \/ (pc = "placed" /\ purpose = "EXIT") => book[bid].status = "COMPLETE"
    /\ Cancelling => bid = pos.stop /\ bid # NoOrder
    /\ pc = "verify" => bid \in DOMAIN orderInfo

Fills == [i \in DOMAIN book |-> book[i].filled]

\* The orders the bookings stand for.
Backs(B) ==
    /\ B \subseteq DOMAIN book \ Buys
    /\ \A i \in B : book[i].status = "COMPLETE"
    /\ B \cap {dbPosition.stop, pos.stop, bid} = {}
    /\ tradedQty <= Total(Fills, B)

Backed == \E B : Backs(B)

SaleInv == SalesWhole /\ StopsRecorded /\ SaleAwaited /\ Backed

LEMMA SaleExchange ==
    ASSUME SalesSettle, WellFormed, UiInv, [Next]_vars
    PROVE  \/ UNCHANGED exchangeVars
           \/ Accepts
           \/ \E i \in DOMAIN book : ExchangeMoves /\ Completes(i)
           \/ pos.stop \in DOMAIN book /\ StopCancels(pos.stop)
           \/ \E i \in Buys : CancelNextEntry /\ Settles(i, "CANCELLED", 0)
<1>1. CASE Place
    BY <1>1 DEF Place, PlaceAccepted, PlaceRefused, PlaceUnanswered, Accepts
<1>2. CASE CancelStop
    <2>1. pos.stop # NoOrder => pos.stop \in DOMAIN book
        BY BookOrders DEF WellFormed, CallWF
    <2> QED
        BY <1>2, <2>1 DEF CancelStop, RequestCancel, StopCancels, exchangeVars
<1>3. CASE ExchangeMoves
    BY <1>3 DEF ExchangeMoves, ExchangeStep, Fill, FillPart, Trigger, Completes, Working, SalesSettle
<1>4. CASE CancelNextEntry
    <2> SUFFICES ASSUME ~UNCHANGED exchangeVars PROVE \E i \in Buys : Settles(i, "CANCELLED", 0)
        BY <1>4
    <2>1. PICK o \in uiTodo : o.bid # NoOrder /\ Working(o.bid) /\ Settle(o.bid, "CANCELLED", 0)
        BY <1>4 DEF CancelNextEntry, RequestCancel, exchangeVars
    <2>2. o.bid \in Buys
        BY <2>1 DEF UiInv
    <2>3. book[o.bid] \in BookOrder
        BY <2>2, BookOrders DEF Buys
    <2>4. 0 <= book[o.bid].qty
        <3>1. book[o.bid].qty \in Nat
            BY <2>3 DEF BookOrder
        <3> QED
            BY <3>1
    <2>5. Settles(o.bid, "CANCELLED", 0)
        BY <2>1, <2>4, Zenon DEF Settles, Working
    <2> QED
        BY <2>2, <2>5
<1> QED
    BY <1>1, <1>2, <1>3, <1>4, StepTouches DEF Touches

\* A sell order goes on as it is, or sells its whole quantity, or is the stop
\* that an exit cancels.
LEMMA SaleKept ==
    ASSUME SalesSettle, WellFormed, UiInv, [Next]_vars, NEW i \in DOMAIN book \ Buys
    PROVE  /\ \A q : SellsFor(i, q) => SellsFor(i, q)'
           /\ i \in DOMAIN book' \ Buys' /\ book'[i].qty = book[i].qty /\ book'[i].stop = book[i].stop
           /\ book[i].status = "COMPLETE" => book'[i] = book[i]
           /\ \/ book'[i] = book[i]
              \/ book'[i].status = "COMPLETE" /\ book'[i].filled = book'[i].qty
              \/ book'[i].status = "CANCELLED" /\ CancelStop /\ i = pos.stop
<1>1. Kept(i)
    BY OrdersKept
<1>2. i \in DOMAIN book' \ Buys'
    BY <1>1 DEF Kept, Buys
<1>3. \/ book'[i] = book[i]
      \/ book'[i].status = "COMPLETE" /\ book'[i].filled = book'[i].qty
      \/ book'[i].status = "CANCELLED" /\ CancelStop /\ i = pos.stop
    <2>1. CASE UNCHANGED exchangeVars
        BY <2>1 DEF exchangeVars
    <2>2. CASE Accepts
        <3> DEFINE n == Len(book) + 1
        <3>1. \A j \in DOMAIN book : book'[j] = book[j]
            BY <2>2, AcceptsEffect
        <3> QED
            BY <3>1
    <2>3. ASSUME NEW j \in DOMAIN book, Completes(j)
          PROVE  book'[i] = book[i] \/ (book'[i].status = "COMPLETE" /\ book'[i].filled = book'[i].qty)
        BY <1>1, <2>3, CompletesEffect DEF Kept
    <2>4. CASE pos.stop \in DOMAIN book /\ StopCancels(pos.stop)
        BY <2>4, StopCancelsEffect DEF StopCancels
    <2>5. ASSUME NEW j \in Buys, Settles(j, "CANCELLED", 0) PROVE book'[i] = book[i]
        BY <2>5, SettlesKeeps DEF Buys, WellFormed
    <2> QED
        BY <2>1, <2>2, <2>3, <2>4, <2>5, SaleExchange
<1> QED
    BY <1>1, <1>2, <1>3 DEF Kept, SellsFor

LEMMA SalesWholeStep ==
    ASSUME SalesSettle, WellFormed, UiInv, SalesWhole, [Next]_vars PROVE SalesWhole'
<1>1. ASSUME NEW i \in DOMAIN book \ Buys, book'[i].status = "COMPLETE"
      PROVE  book'[i].filled = book'[i].qty
    BY <1>1, SaleKept DEF SalesWhole
<1>2. CASE DOMAIN book' = DOMAIN book
    <2>1. \A i \in DOMAIN book : i \in Buys => i \in Buys'
        BY BuyKept
    <2> QED
        BY <1>1, <1>2, <2>1 DEF SalesWhole
<1>3. CASE Accepts
    <2> DEFINE n == Len(book) + 1
    <2>1. DOMAIN book' = DOMAIN book \cup {n} /\ book'[n].status # "COMPLETE"
        <3>1. "rejected" \notin Faults /\ purpose \in {"ENTRY", "STOP_LOSS", "EXIT"}
            BY DEF SalesSettle, WellFormed, CallWF, CallTypeOK, OrderPurpose
        <3> QED
            BY <1>3, <3>1, AcceptsAsSent
    <2> HIDE DEF n
    <2>2. \A i \in DOMAIN book : i \in Buys => i \in Buys'
        BY BuyKept
    <2> QED
        BY <1>1, <2>1, <2>2 DEF SalesWhole
<1> QED
    BY <1>2, <1>3, ExchangeKinds, SettlesKeeps DEF exchangeVars, SettlesOne, WellFormed

LEMMA StopsRecordedStep ==
    ASSUME SalesSettle, WellFormed, UiInv, StopsRecorded, SaleAwaited, [Next]_vars
    PROVE  StopsRecorded'
<1>1. ASSUME NEW p \in {dbPosition, pos}, p.stop # NoOrder
      PROVE  p.stop \in DOMAIN book' \ Buys' /\ book'[p.stop].qty = p.qty /\ book'[p.stop].stop
    <2>1. p.stop \in DOMAIN book \ Buys /\ book[p.stop].qty = p.qty /\ book[p.stop].stop
        BY <1>1 DEF StopsRecorded, SellsFor
    <2> QED
        BY <2>1, SaleKept
<1>2. NoPosition.stop = NoOrder
    BY DEF NoPosition
<1>3. dbPosition'.stop # NoOrder =>
          /\ dbPosition'.stop \in DOMAIN book' \ Buys' /\ book'[dbPosition'.stop].qty = dbPosition'.qty
          /\ book'[dbPosition'.stop].stop
    BY <1>1, <1>2, RowKeptOrGone DEF SavePosition
<1>4. pos'.stop # NoOrder =>
          /\ pos'.stop \in DOMAIN book' \ Buys' /\ book'[pos'.stop].qty = pos'.qty
          /\ book'[pos'.stop].stop
    <2>1. CASE StopPlaced
        <3>1. /\ pos'.stop = bid /\ pos'.qty = pos.qty /\ book' = book
              /\ SellsFor(bid, pos.qty) /\ book[bid].stop
            BY <2>1 DEF StopPlaced, SaleAwaited, WellFormed, CallWF, CallTypeOK, PosRow, exchangeVars
        <3> QED
            BY <3>1 DEF SellsFor, Buys
    <2>2. CASE pos' = pos \/ pos'.stop = NoOrder \/ pos' = dbPosition
        BY <1>1, <2>2
    <2> QED
        BY <2>1, <2>2, PosFrom
<1> QED
    BY <1>3, <1>4 DEF StopsRecorded, SellsFor

\* The states of a handler that waits for no sale.
NoneAwaited == pc \notin {"poll", "placed", "recordExit", "pollCancel", "verify", "lookup"}

LEMMA SaleAwaitedStep ==
    ASSUME SalesSettle, WellFormed, RecordInv, StopsRecorded, SaleAwaited, [Next]_vars
    PROVE  SaleAwaited'
<1>1. ASSUME NEW i, NEW q, SellsFor(i, q)
      PROVE  /\ SellsFor(i, q)' /\ book'[i].stop = book[i].stop
             /\ book[i].status = "COMPLETE" => book'[i].status = "COMPLETE"
             /\ ~book[i].stop /\ book[i].status \in {"OPEN", "COMPLETE"} /\ ~CancelStop =>
                    book'[i].status \in {"OPEN", "COMPLETE"}
    <2>1. i \in DOMAIN book \ Buys
        BY <1>1 DEF SellsFor
    <2> QED
        BY <1>1, <2>1, SaleKept DEF RecordInv
<1>2. CASE UNCHANGED callVars
    <2>1. /\ pc' = pc /\ purpose' = purpose /\ bid' = bid /\ pos' = pos
          /\ ~CancelStop /\ DOMAIN orderInfo \subseteq DOMAIN orderInfo'
        BY <1>2, PolledKept DEF callVars, CancelStop
    <2> QED
        BY <1>1, <2>1 DEF SaleAwaited, Cancelling
<1>3. CASE Place
    <2>1. CASE pc' = "poll"
        <3>1. Accepts /\ bid' = Len(book') /\ purpose' = purpose /\ pos' = pos
            BY <1>3, <2>1 DEF Place, PlaceAccepted, Accepts
        <3>2. "rejected" \notin Faults
            BY DEF SalesSettle
        <3>3. /\ bid' \in DOMAIN book' /\ book'[bid'].qty = OrderQty
              /\ purpose # "ENTRY" => book'[bid'].side = "SELL"
              /\ purpose # "STOP_LOSS" => book'[bid'].status = "OPEN"
              /\ purpose = "STOP_LOSS" => book'[bid'].stop
            BY <3>1, <3>2, AcceptsAsSent
        <3>4. purpose = "EXIT" => ~book'[bid'].stop
            BY <3>1, <3>2, AcceptsAsSent, AcceptsStop
        <3> QED
            BY <2>1, <3>1, <3>3, <3>4 DEF SaleAwaited, Cancelling, SellsFor, Buys, OrderQty
    <2>2. CASE pc' # "poll"
        BY <1>3, <2>2 DEF Place, PlaceUnanswered, SalesSettle, SaleAwaited, Cancelling
    <2> QED
        BY <2>1, <2>2
<1>4. CASE PollPlaced
    <2>1. /\ pc = "poll" /\ pc' = "placed" /\ UNCHANGED <<purpose, bid, pos, book>> /\ PollSettles(bid)
        BY <1>4 DEF PollPlaced, GoTo, Poll, PollSettles, PollTimesOut, exchangeVars, SalesSettle
    <2>2. book[bid].status # "OPEN"
        BY <2>1 DEF PollSettles, MapKiteStatus, StatusMap, TerminalStatuses, PendingNames
    <2> QED
        BY <2>1, <2>2 DEF SaleAwaited, Cancelling, SellsFor, Buys
<1>5. CASE CancelStop
    <2>1. \/ pc' = "pollCancel" /\ bid' = pos.stop /\ pos' = pos /\ pos.stop # NoOrder
          \/ pc' = "place"
        BY <1>5 DEF CancelStop
    <2> QED
        BY <2>1 DEF SaleAwaited, Cancelling
<1>6. CASE PollCancel
    <2>1. pc = "pollCancel" /\ pc' = "verify" /\ UNCHANGED <<bid, pos>> /\ bid \in DOMAIN orderInfo'
        BY <1>6 DEF PollCancel, GoTo, Poll, PollSettles, PollTimesOut, Remember
    <2> QED
        BY <2>1 DEF SaleAwaited, Cancelling
<1>7. CASE ExitPlaced
    <2>1. pc = "placed" /\ purpose = "EXIT" /\ pc' = "recordExit" /\ UNCHANGED <<bid, pos, book>>
        BY <1>7 DEF ExitPlaced, GoTo, exchangeVars
    <2> QED
        BY <2>1 DEF SaleAwaited, Cancelling, SellsFor, Buys
<1>8. CASE NoneAwaited'
    BY <1>8 DEF NoneAwaited, SaleAwaited, Cancelling
<1>9. CASE ReceiveCandle
    BY <1>2, <1>8, <1>9, CandleReceived DEF NoneAwaited
<1>10. CASE ExecuteBuy \/ ExecuteSell \/ RiskCheck \/ QueueSignal \/ LookupByTag
    BY <1>8, <1>10 DEF ExecuteBuy, ExecuteSell, RiskCheck, QueueSignal, LookupByTag, GoTo, Leave,
                       SaleAwaited, NoneAwaited
<1>11. CASE EntryStep
    BY <1>8, <1>11 DEF EntryStep, EntryPlaced, EntryRefused, EntryUnanswered, ReadFill, RecordFill,
                       StopPlaced, StopFailed, SavePosition, GoTo, Leave, NoneAwaited
<1>12. CASE ExitStep
    BY <1>5, <1>6, <1>7, <1>8, <1>12, AfterExitType
    DEF ExitStep, SquareOff, VerifyStop, ExitFailed, RecordExit, GoTo, Leave, NoneAwaited
<1> QED
    BY <1>2, <1>3, <1>4, <1>9, <1>10, <1>11, <1>12, StepTouches DEF Touches, EngineStep

\* The orders a coming booking may stand for come from those that are in hand.
LEMMA AtStakeStep ==
    ASSUME SalesSettle, WellFormed, SaleAwaited, [Next]_vars
    PROVE  {dbPosition'.stop, pos'.stop, bid'} \subseteq
               {dbPosition.stop, pos.stop, bid, NoOrder, Len(book) + 1}
<1>1. NoPosition.stop = NoOrder
    BY DEF NoPosition
<1>2. pos'.stop \in {dbPosition.stop, pos.stop, bid, NoOrder}
    <2>1. StopPlaced => pos'.stop = bid
        BY DEF StopPlaced, WellFormed, CallWF, CallTypeOK, PosRow
    <2> QED
        BY <2>1, PosFrom
<1>3. dbPosition'.stop \in {dbPosition.stop, pos.stop, NoOrder}
    BY <1>1, RowKeptOrGone DEF SavePosition
<1>4. CASE Place
    <2>1. bid' = bid \/ (Accepts /\ bid' = Len(book'))
        BY <1>4 DEF Place, PlaceAccepted, Accepts
    <2>2. "rejected" \notin Faults
        BY DEF SalesSettle
    <2> QED
        BY <1>2, <1>3, <2>1, <2>2, AcceptsAsSent
<1>5. CASE bid' \in {bid, pos.stop, NoOrder}
    BY <1>2, <1>3, <1>5
<1>6. CASE ReceiveCandle
    BY <1>5, <1>6, CandleReceived
<1>7. CASE ExecuteBuy \/ ExecuteSell \/ RiskCheck \/ QueueSignal \/ LookupByTag \/ PollPlaced
    BY <1>5, <1>7 DEF ExecuteBuy, ExecuteSell, RiskCheck, QueueSignal, LookupByTag, PollPlaced, GoTo,
                      Leave, SaleAwaited
<1>8. CASE EntryStep
    BY <1>5, <1>8 DEF EntryStep, EntryPlaced, EntryRefused, EntryUnanswered, ReadFill, RecordFill,
                      StopPlaced, StopFailed, SavePosition, GoTo, Leave
<1>9. CASE ExitStep
    BY <1>5, <1>9 DEF ExitStep, SquareOff, CancelStop, PollCancel, VerifyStop, ExitPlaced, ExitFailed,
                      RecordExit, GoTo, Leave
<1> QED
    BY <1>4, <1>5, <1>6, <1>7, <1>8, <1>9, StepTouches DEF Touches, EngineStep, callVars

\* What is booked is what an order in hand has sold, and it is out of hand then.
LEMMA BookingStep ==
    ASSUME WellFormed, RecordInv, StopsRecorded, SaleAwaited, [Next]_vars, tradedQty' # tradedQty
    PROVE  /\ tradedQty' = tradedQty + pos.qty /\ UNCHANGED book
           /\ dbPosition'.stop = NoOrder /\ pos'.stop = NoOrder /\ bid' = NoOrder
           /\ SellsFor(bid, pos.qty) /\ book[bid].status = "COMPLETE"
<1>1. NoPosition.stop = NoOrder
    BY DEF NoPosition
<1>2. CASE RecordExit
    <2>1. SellsFor(bid, pos.qty) /\ book[bid].status = "COMPLETE"
        BY <1>2 DEF RecordExit, SaleAwaited
    <2> QED
        BY <1>1, <1>2, <2>1 DEF RecordExit, RecordSale, Leave, exchangeVars
<1>3. CASE VerifyStop
    <2>1. pc = "verify" /\ orderInfo[bid].status = "COMPLETE" /\ RecordSale(pos.qty) /\ Leave(AfterExit)
        BY <1>3 DEF VerifyStop
    <2>2. SellsFor(bid, pos.qty) /\ bid \in DOMAIN orderInfo
        BY <2>1 DEF SaleAwaited, StopsRecorded, Cancelling
    <2>3. book[bid].status = "COMPLETE"
        BY <2>1, <2>2 DEF RecordInv, CacheInv, Filled
    <2> QED
        BY <1>1, <1>3, <2>1, <2>2, <2>3 DEF VerifyStop, RecordSale, Leave, exchangeVars
<1> QED
    BY <1>2, <1>3, StepTouches
    DEF Touches, dbVars, RiskCheck, EntryPlaced, EntryUnanswered, RecordFill, StopPlaced, SavePosition,
        ExitPlaced, PressStop, MarkCancelled, ClearKillSwitch

LEMMA FillsAre ==
    ASSUME WellFormed
    PROVE  Len(book) \in Nat /\ DOMAIN book = 1..Len(book) /\ \A i \in 1..Len(book) : Fills[i] \in Nat
<1>1. DOMAIN book = 1..Len(book) /\ Len(book) \in Nat
    BY DEF WellFormed, ExchangeTypeOK
<1>2. \A i \in DOMAIN book : book[i].filled \in Nat
    BY BookOrders DEF BookOrder
<1> QED
    BY <1>1, <1>2 DEF Fills

LEMMA SameTotal ==
    ASSUME WellFormed, NEW B \in SUBSET DOMAIN book, \A i \in B : Fills[i] = Fills'[i]
    PROVE  Total(Fills, B) = Total(Fills', B)
<1>1. /\ Len(book) \in Nat /\ B \in SUBSET (1..Len(book))
      /\ \A i \in 1..Len(book) : Fills[i] \in Int
    BY FillsAre
<1> QED
    BY <1>1, TotalAgrees

\* The orders that back the bookings go on backing them while nothing is booked.
LEMMA BackedKept ==
    ASSUME WellFormed, NEW B, Backs(B), tradedQty' = tradedQty,
           \A i \in B : i \in DOMAIN book' \ Buys' /\ book'[i] = book[i],
           B \cap {dbPosition'.stop, pos'.stop, bid'} = {}
    PROVE  Backed'
<1>1. B \in SUBSET DOMAIN book /\ \A i \in B : Fills[i] = Fills'[i]
    BY DEF Backs, Fills
<1>2. Total(Fills, B) = Total(Fills', B)
    BY <1>1, SameTotal
<1>3. Backs(B)'
    BY <1>2 DEF Backs
<1> QED
    BY <1>3 DEF Backed

LEMMA BackedStep ==
    ASSUME SalesSettle, WellFormed, WellFormed', RecordInv, SaleInv, [Next]_vars PROVE Backed'
<1>1. PICK B : Backs(B)
    BY DEF SaleInv, Backed
<1>2. /\ B \subseteq DOMAIN book \ Buys
      /\ \A i \in B : book[i].status = "COMPLETE"
      /\ B \cap {dbPosition.stop, pos.stop, bid} = {}
      /\ tradedQty <= Total(Fills, B)
    BY <1>1 DEF Backs
<1>3. \A i \in B : i \in DOMAIN book' \ Buys' /\ book'[i] = book[i]
    BY <1>2, SaleKept DEF RecordInv
<1>4. B \cap {dbPosition'.stop, pos'.stop, bid'} = {}
    <2>1. NoOrder \notin B /\ Len(book) + 1 \notin B
        BY <1>2, FillsAre DEF NoOrder
    <2> QED
        BY <1>2, <2>1, AtStakeStep DEF SaleInv
<1>5. CASE tradedQty' = tradedQty
    BY <1>1, <1>3, <1>4, <1>5, BackedKept
<1>6. CASE tradedQty' # tradedQty
    <2>1. PICK C : C = B \cup {bid}
        OBVIOUS
    <2>2. /\ tradedQty' = tradedQty + pos.qty /\ book' = book
          /\ dbPosition'.stop = NoOrder /\ pos'.stop = NoOrder /\ bid' = NoOrder
          /\ SellsFor(bid, pos.qty) /\ book[bid].status = "COMPLETE"
        BY <1>6, BookingStep DEF SaleInv
    <2>3. bid \in DOMAIN book \ Buys /\ bid \notin B /\ book[bid].filled = pos.qty
        BY <1>2, <2>2 DEF SellsFor, SaleInv, SalesWhole
    <2>4. Total(Fills, C) = Fills[bid] + Total(Fills, B) /\ Total(Fills, B) \in Int
        <3>1. B \in SUBSET (1..Len(book)) /\ bid \in (1..Len(book)) \ B
            BY <1>2, <2>3, FillsAre
        <3>2. Total(Fills, B \cup {bid}) = Fills[bid] + Total(Fills, B) /\ Total(Fills, B) \in Int
            BY <3>1, FillsAre, TotalGrows
        <3> QED
            BY <2>1, <3>2
    <2>5. tradedQty' <= Total(Fills, C)
        <3>1. Fills[bid] = pos.qty
            BY <2>3 DEF Fills
        <3>2. tradedQty \in Int /\ pos.qty \in Int
            BY DEF WellFormed, DbWF, DbTypeOK, CallWF, CallTypeOK, PosRow
        <3> QED
            BY <1>2, <2>2, <2>4, <3>1, <3>2
    <2>6. Fills' = Fills /\ Buys' = Buys
        BY <2>2 DEF Fills, Buys
    <2>7. NoOrder \notin C
        BY <1>2, <2>1, <2>3, FillsAre DEF NoOrder
    <2>8. C \subseteq DOMAIN book \ Buys /\ \A i \in C : book[i].status = "COMPLETE"
        BY <1>2, <2>1, <2>2, <2>3
    <2>9. Backs(C)'
        BY <2>2, <2>5, <2>6, <2>7, <2>8 DEF Backs
    <2> QED
        BY <2>9 DEF Backed
<1> QED
    BY <1>5, <1>6

LEMMA SaleInit == Init => SaleInv
<1> SUFFICES ASSUME Init PROVE SaleInv
    OBVIOUS
<1>1. /\ book = << >> /\ pc = "idle" /\ tradedQty = 0 /\ dbPosition.stop = NoOrder /\ pos.stop = NoOrder
      /\ DOMAIN book = {}
    BY DEF Init, DbInit, NoPosition
<1>2. SalesWhole /\ StopsRecorded /\ SaleAwaited
    BY <1>1 DEF SalesWhole, StopsRecorded, SaleAwaited, Cancelling
<1>3. Total(Fills, {}) = 0
    <2> DEFINE Z == [s \in SUBSET {} |-> 0]
    <2>1. Adds(Z, Fills, {}) /\ IsFiniteSet({}) /\ Z[{}] = 0
        BY FS_EmptySet DEF Adds
    <2> HIDE DEF Z
    <2> QED
        BY <2>1, TotalIs
<1>4. Backs({})
    BY <1>1, <1>3 DEF Backs
<1> QED
    BY <1>2, <1>4 DEF SaleInv, Backed

LEMMA SaleStep ==
    ASSUME SalesSettle, WellFormed, WellFormed', RecordInv, SaleInv, [Next]_vars PROVE SaleInv'
<1>1. UiInv /\ SalesWhole /\ StopsRecorded /\ SaleAwaited
    BY DEF RecordInv, SaleInv
<1> QED
    BY <1>1, SalesWholeStep, StopsRecordedStep, SaleAwaitedStep, BackedStep DEF SaleInv

\* The shares sold are the total of what the sell orders have filled.
LEMMA SoldIs == ASSUME WellFormed PROVE Sold = Total(Fills, DOMAIN book \ Buys)
<1> DEFINE S == DOMAIN book \ Buys
           c(s) == CHOOSE x \in s : TRUE
           Equation(g) == g = [s \in SUBSET S |-> IF s = {} THEN 0 ELSE book[c(s)].filled + g[s \ {c(s)}]]
<1>1. Sold = (CHOOSE g : Equation(g))[S]
    BY DEF Sold, MapThenSumSet, MapThenFoldSet
<1>2. ASSUME NEW g PROVE Equation(g) <=> SumEquation(g, Fills, S)
    <2> DEFINE bs == [s \in SUBSET S |-> IF s = {} THEN 0 ELSE book[c(s)].filled + g[s \ {c(s)}]]
               fs == [s \in SUBSET S |-> IF s = {} THEN 0 ELSE Fills[c(s)] + g[s \ {c(s)}]]
    <2>1. \A s \in SUBSET S : s # {} => c(s) \in DOMAIN book
        OBVIOUS
    <2>2. \A s \in SUBSET S : bs[s] = fs[s]
        BY <2>1 DEF Fills
    <2>3. bs = fs
        BY <2>2
    <2> QED
        BY <2>3 DEF SumEquation
<1> QED
    BY <1>1, <1>2 DEF Total

LEMMA BackedSalesHappened == ASSUME WellFormed, SaleInv PROVE BookedSalesHappened
<1>1. PICK B : B \subseteq DOMAIN book \ Buys /\ tradedQty <= Total(Fills, B)
    BY DEF SaleInv, Backed, Backs
<1> DEFINE all == DOMAIN book \ Buys
<1>2. /\ Len(book) \in Nat /\ \A i \in 1..Len(book) : Fills[i] \in Nat
      /\ all \in SUBSET (1..Len(book)) /\ B \in SUBSET all
    BY <1>1, FillsAre
<1>3. Sold = Total(Fills, all)
    BY SoldIs
<1> HIDE DEF all
<1>4. Total(Fills, B) <= Total(Fills, all)
    BY <1>2, TotalMonotone
<1>5. Total(Fills, B) \in Int /\ Total(Fills, all) \in Int /\ tradedQty \in Int
    <2>1. PICK G : Adds(G, Fills, 1..Len(book))
        BY <1>2, SumsExist
    <2>2. Total(Fills, B) \in Int /\ Total(Fills, all) \in Int
        BY <1>2, <2>1, PartsTotal
    <2> QED
        BY <2>2 DEF WellFormed, DbWF, DbTypeOK
<1> QED
    BY <1>1, <1>3, <1>4, <1>5 DEF BookedSalesHappened

\* A trade in the trades table is a sale the exchange has made.  An exit is
\* booked whatever its poll ended in, and a deleted position takes its stop id
\* along: so no order may be rejected, filled in part or lost, and no poll may
\* give up.  Whatever else fails, and whenever the emergency stop is pressed,
\* every booking then has an order of its own behind it.
THEOREM SalesAreReal ==
    ASSUME SalesSettle PROVE Spec => []BookedSalesHappened
<1>1. WellFormed /\ WellFormed' /\ RecordInv /\ SaleInv /\ [Next]_vars => SaleInv'
    BY SaleStep
<1>2. WellFormed /\ SaleInv => BookedSalesHappened
    BY BackedSalesHappened
<1> QED
    BY <1>1, <1>2, SaleInit, RecordAlways, PTL DEF Spec

=============================================================================
