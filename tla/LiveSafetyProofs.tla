-------------------------- MODULE LiveSafetyProofs --------------------------
(***************************************************************************)
(* Safety of a live session, for every value of the constants and whatever *)
(* faults and alerts occur.  Everything rests on WellFormed (LiveTypes).   *)
(***************************************************************************)
EXTENDS LiveTypes

(***************************************************************************)
(* An order row, once terminal, stays                                      *)
(***************************************************************************)
LEMMA TerminalRowsStep ==
    ASSUME WellFormed, [Next]_vars PROVE TerminalRowsStay
<1>1. CASE UNCHANGED dbOrders
    BY <1>1 DEF TerminalRowsStay
<1>2. ASSUME NEW key, NEW s, NEW i, InsertOrder(key, s, i)
      PROVE  TerminalRowsStay
    BY <1>2 DEF InsertOrder, TerminalRowsStay
<1>3. ASSUME NEW key, NEW s, UpdateOrder(key, s)
      PROVE  TerminalRowsStay
    <2>1. ASSUME NEW k \in DOMAIN dbOrders, dbOrders[k].status \in TerminalStatuses
          PROVE  k \in DOMAIN dbOrders' /\ dbOrders'[k].status = dbOrders[k].status
        <3>1. dbOrders[k] \in OrderRow
            BY DEF WellFormed, DbWF, DbTypeOK
        <3>2. CASE k = key
            BY <1>3, <2>1, <3>1, <3>2 DEF UpdateOrder, UpdateAllowed, OrderRow
        <3>3. CASE k # key
            BY <1>3, <3>3 DEF UpdateOrder
        <3> QED
            BY <3>2, <3>3
    <2> QED
        BY <2>1 DEF TerminalRowsStay
<1>4. CASE UNCHANGED dbVars
    BY <1>1, <1>4 DEF dbVars
<1>5. CASE RiskCheck \/ SavePosition \/ VerifyStop \/ PressStop \/ ClearKillSwitch
    BY <1>1, <1>5 DEF RiskCheck, SavePosition, VerifyStop, PressStop, ClearKillSwitch
<1>6. CASE EntryPlaced \/ EntryUnanswered
    BY <1>1, <1>2, <1>6 DEF EntryPlaced, EntryUnanswered, InsertFails
<1>7. CASE StopPlaced \/ ExitPlaced
    BY <1>2, <1>7 DEF StopPlaced, ExitPlaced
<1>8. CASE RecordFill \/ RecordExit \/ MarkCancelled
    BY <1>1, <1>3, <1>8 DEF RecordFill, RecordExit, MarkCancelled
<1> QED
    BY <1>4, <1>5, <1>6, <1>7, <1>8, StepTouches DEF Touches

\* The engine and the emergency stop may race for an order row; whoever comes
\* second cannot undo a terminal status.
THEOREM TerminalRowsAreFinal == Spec => TerminalRowsFinal
BY SessionWellFormed, TerminalRowsStep, PTL DEF Spec, TerminalRowsFinal

(***************************************************************************)
(* An unprotected position halts the engine                                *)
(***************************************************************************)

\* UnprotectedHalts is not inductive: the halt comes before the row is written.
UnprotectedInv ==
    /\ UnprotectedHalts
    /\ pc = "savePosition" /\ pos.stop = NoOrder => halted

LEMMA HaltedStays == ASSUME [Next]_vars PROVE halted => halted'
<1>1. CASE UNCHANGED engineVars
    BY <1>1 DEF engineVars
<1>2. CASE ReceiveCandle
    BY <1>2 DEF ReceiveCandle, IgnoreCandle, StartCandle
<1>3. CASE EntryUnanswered \/ ReadFill \/ StopFailed \/ ExitFailed \/ QueueSignal
    BY <1>3 DEF EntryUnanswered, ReadFill, StopFailed, ExitFailed, QueueSignal, Halt, engineVars
<1> QED
    BY <1>1, <1>2, <1>3, StepTouches DEF Touches

LEMMA RowKeptOrGone ==
    ASSUME [Next]_vars PROVE UNCHANGED dbPosition \/ dbPosition' = NoPosition \/ SavePosition
BY StepTouches
DEF Touches, dbVars, RiskCheck, EntryPlaced, EntryUnanswered, RecordFill, StopPlaced, VerifyStop,
    ExitPlaced, RecordExit, PressStop, MarkCancelled, ClearKillSwitch, RecordSale

LEMMA UnprotectedRow ==
    ASSUME UnprotectedInv, [Next]_vars PROVE UnprotectedHalts'
<1> USE HaltedStays DEF UnprotectedInv, UnprotectedHalts
<1>1. CASE UNCHANGED dbPosition
    BY <1>1
<1>2. CASE dbPosition' = NoPosition
    BY <1>2
<1>3. CASE SavePosition
    BY <1>3 DEF SavePosition
<1> QED
    BY <1>1, <1>2, <1>3, RowKeptOrGone

\* Only the failed second attempt leads to a position without a stop.
LEMMA UnprotectedSave ==
    ASSUME WellFormed, [Next]_vars, pc' = "savePosition", pos'.stop = NoOrder
    PROVE  halted' \/ (pc = "savePosition" /\ pos.stop = NoOrder)
<1> USE DEF GoTo, Leave
<1>1. CASE UNCHANGED callVars
    BY <1>1 DEF callVars
<1>2. CASE StopPlaced
    <2>1. bid \in Nat /\ bid # NoOrder
        BY <1>2 DEF StopPlaced, WellFormed, CallWF, CallTypeOK, OrderId
    <2>2. pos'.stop = bid
        BY <1>2 DEF StopPlaced, WellFormed, CallWF, CallTypeOK, PosRow
    <2> QED
        BY <2>1, <2>2
<1>3. CASE StopFailed
    BY <1>3 DEF StopFailed, Halt
<1>4. ~ReceiveCandle \/ UNCHANGED callVars
    BY DEF ReceiveCandle, IgnoreCandle, StartCandle, callVars
<1>5. ~(ExecuteBuy \/ ExecuteSell \/ RiskCheck \/ Place \/ LookupByTag \/ PollPlaced \/ QueueSignal)
    BY DEF ExecuteBuy, ExecuteSell, RiskCheck, Place, LookupByTag, PollPlaced, QueueSignal
<1>6. ~(EntryPlaced \/ EntryRefused \/ EntryUnanswered \/ ReadFill \/ RecordFill \/ SavePosition)
    BY DEF EntryPlaced, EntryRefused, EntryUnanswered, ReadFill, RecordFill, SavePosition
<1>7. ~ExitStep
    BY AfterExitType
    DEF ExitStep, SquareOff, CancelStop, PollCancel, VerifyStop, ExitPlaced, ExitFailed, RecordExit
<1> QED
    BY <1>1, <1>2, <1>3, <1>4, <1>5, <1>6, <1>7, StepTouches DEF Touches, EngineStep, EntryStep

LEMMA UnprotectedStep == WellFormed /\ UnprotectedInv /\ [Next]_vars => UnprotectedInv'
BY UnprotectedRow, UnprotectedSave, HaltedStays DEF UnprotectedInv

\* A position that is recorded without a stop order has halted the engine,
\* whatever made the two attempts to place the stop fail.
THEOREM UnprotectedPositionHalts == Spec => []UnprotectedHalts
<1>1. Init => UnprotectedInv
    BY DEF Init, DbInit, UnprotectedInv, UnprotectedHalts
<1>2. UnprotectedInv => UnprotectedHalts
    BY DEF UnprotectedInv
<1> QED
    BY <1>1, <1>2, UnprotectedStep, SessionWellFormed, PTL DEF Spec

(***************************************************************************)
(* What a step does to the buy orders of the book                          *)
(***************************************************************************)
BuysKept == Buys' = Buys /\ \A i \in Buys : book'[i].tag = book[i].tag

BuyAdded ==
    /\ Place /\ purpose = "ENTRY" /\ ~brokerHalted
    /\ \E n \in Nat \ Buys :
          /\ Buys' = Buys \cup {n}
          /\ book'[n].tag = sid
          /\ \A i \in Buys : book'[i].tag = book[i].tag

LEMMA AcceptBuys ==
    ASSUME ExchangeTypeOK, NEW o \in BookOrder, Accept(o)
    PROVE  /\ o.side # "BUY" => BuysKept
           /\ o.side = "BUY" => /\ Buys' = Buys \cup {Len(book) + 1}
                                /\ Len(book) + 1 \in Nat \ Buys
                                /\ book'[Len(book) + 1].tag = o.tag
                                /\ \A i \in Buys : book'[i].tag = book[i].tag
<1>1. PICK x \in BookOrder : book' = Append(book, x) /\ x.side = o.side /\ x.tag = o.tag
    <2>1. /\ [o EXCEPT !.status = "REJECTED"] \in BookOrder
          /\ [o EXCEPT !.status = "REJECTED"].side = o.side
          /\ [o EXCEPT !.status = "REJECTED"].tag = o.tag
        BY DEF BookOrder
    <2> QED
        BY <2>1 DEF Accept
<1>2. /\ Len(book) \in Nat
      /\ DOMAIN book = 1..Len(book)
      /\ DOMAIN book' = 1..(Len(book) + 1)
      /\ book'[Len(book) + 1] = x
      /\ \A i \in DOMAIN book : book'[i] = book[i]
    BY <1>1 DEF ExchangeTypeOK
<1> QED
    BY <1>1, <1>2 DEF BuysKept, Buys

LEMMA SettleBuys ==
    ASSUME ExchangeTypeOK, NEW i, NEW s, NEW f, Settle(i, s, f)
    PROVE  BuysKept
<1>1. DOMAIN book' = DOMAIN book
    BY DEF Settle, ExchangeTypeOK
<1>2. \A j \in DOMAIN book : book'[j].side = book[j].side /\ book'[j].tag = book[j].tag
    <2>1. \A j \in DOMAIN book : book[j] \in BookOrder
        BY DEF ExchangeTypeOK
    <2> QED
        BY <2>1 DEF Settle, ExchangeTypeOK, BookOrder
<1> QED
    BY <1>1, <1>2 DEF BuysKept, Buys

LEMMA BuysStep ==
    ASSUME WellFormed, [Next]_vars PROVE BuysKept \/ BuyAdded
<1> USE DEF WellFormed
<1>1. CASE UNCHANGED exchangeVars
    BY <1>1 DEF exchangeVars, BuysKept, Buys
<1>2. CASE Place
    <2> DEFINE o == NewOrder(sid, purpose, OrderQty)
    <2>1. o \in BookOrder /\ o.tag = sid /\ (o.side = "BUY" <=> purpose = "ENTRY")
        BY <1>2, NewOrderType, OrderQtyType DEF Place, CallWF, CallTypeOK, NewOrder
    <2>2. UNCHANGED exchangeVars \/ (Accept(o) /\ ~brokerHalted)
        BY <1>2 DEF Place, PlaceAccepted, PlaceRefused, PlaceUnanswered
    <2> HIDE DEF o
    <2>3. CASE Accept(o) /\ ~brokerHalted
        BY <1>2, <2>1, <2>3, AcceptBuys DEF BuyAdded
    <2> QED
        BY <1>1, <2>2, <2>3
<1>3. CASE CancelStop \/ CancelNextEntry
    BY <1>1, <1>3, SettleBuys DEF CancelStop, CancelNextEntry, RequestCancel, exchangeVars
<1>4. CASE ExchangeMoves
    BY <1>4, SettleBuys DEF ExchangeMoves, ExchangeStep, Fill, FillPart, Trigger
<1> QED
    BY <1>1, <1>2, <1>3, <1>4, StepTouches DEF Touches

(***************************************************************************)
(* A halt ends the entries                                                 *)
(***************************************************************************)

\* The handler is on its way to placing a buy order.
EntryComing == pc \in {"buy", "risk"} \/ (pc = "place" /\ purpose = "ENTRY")

HaltInv == EntryComing => ~halted

\* The only ways onto, and along, the path to a buy order.
LEMMA EntryComingStep ==
    ASSUME WellFormed, [Next]_vars, EntryComing'
    PROVE  \/ EntryComing /\ sid' = sid /\ UNCHANGED engineVars
           \/ /\ ReceiveCandle /\ pc' = "buy"
              /\ ~halted /\ ~halted'
              /\ pending # NoSignal /\ sid' = pending
              /\ TakePending /\ UNCHANGED seen
<1> USE DEF EntryComing, GoTo, Leave
<1>1. CASE UNCHANGED callVars
    BY <1>1, StepTouches
    DEF Touches, callVars, ReceiveCandle, IgnoreCandle, StartCandle, EntryUnanswered, ReadFill,
        StopFailed, ExitFailed, QueueSignal
<1>2. CASE ReceiveCandle
    BY <1>1, <1>2 DEF ReceiveCandle, IgnoreCandle, StartCandle
<1>3. CASE ExecuteBuy \/ RiskCheck
    BY <1>3 DEF ExecuteBuy, RiskCheck
<1>4. ~(ExecuteSell \/ Place \/ LookupByTag \/ PollPlaced \/ QueueSignal)
    BY DEF ExecuteSell, Place, LookupByTag, PollPlaced, QueueSignal
<1>5. ~EntryStep
    BY DEF EntryStep, EntryPlaced, EntryRefused, EntryUnanswered, ReadFill, RecordFill, StopPlaced,
           StopFailed, SavePosition
<1>6. ~ExitStep
    BY AfterExitType
    DEF ExitStep, SquareOff, CancelStop, PollCancel, VerifyStop, ExitPlaced, ExitFailed, RecordExit
<1> QED
    BY <1>1, <1>2, <1>3, <1>4, <1>5, <1>6, StepTouches DEF Touches, EngineStep

LEMMA HaltInvStep == WellFormed /\ HaltInv /\ [Next]_vars => HaltInv'
BY EntryComingStep DEF HaltInv, engineVars

LEMMA NoEntryStep ==
    ASSUME WellFormed, HaltInv, [Next]_vars PROVE NoEntryOnceHalted
<1>1. CASE BuysKept
    BY <1>1 DEF BuysKept, NoEntryOnceHalted
<1>2. CASE BuyAdded
    BY <1>2 DEF BuyAdded, HaltInv, EntryComing, Place, NoEntryOnceHalted
<1> QED
    BY <1>1, <1>2, BuysStep

\* Once the engine or the broker has halted, no further buy order reaches the
\* exchange, whatever the feed, the user or the exchange does.
THEOREM HaltIsFinal == Spec => HaltEndsEntries
<1>1. Init => HaltInv
    BY DEF Init, HaltInv, EntryComing
<1> QED
    BY <1>1, HaltInvStep, NoEntryStep, SessionWellFormed, PTL DEF Spec, HaltEndsEntries

(***************************************************************************)
(* The daily-loss latch ends the entries                                   *)
(***************************************************************************)

\* The risk check that let the entry through found no latch and set none.
LatchInv == lossLatch => ~(pc = "place" /\ purpose = "ENTRY")

\* Only the risk check leads to an entry's placement, and only it sets the latch.
LEMMA LatchStep ==
    ASSUME WellFormed, LatchInv, [Next]_vars PROVE LatchInv'
<1> SUFFICES ASSUME pc' = "place", purpose' = "ENTRY" PROVE ~lossLatch'
    BY DEF LatchInv
<1>1. CASE RiskCheck
    BY <1>1 DEF RiskCheck, LossHalt, Leave
<1>2. CASE UNCHANGED callVars /\ ~RiskCheck
    <2>1. lossLatch' = lossLatch
        BY <1>2, StepTouches
        DEF Touches, dbVars, EntryPlaced, EntryUnanswered, RecordFill, StopPlaced, SavePosition,
            VerifyStop, ExitPlaced, RecordExit, PressStop, MarkCancelled, ClearKillSwitch
    <2> QED
        BY <1>2, <2>1 DEF LatchInv, callVars
<1>3. ReceiveCandle => UNCHANGED callVars
    BY DEF ReceiveCandle, IgnoreCandle, StartCandle, callVars
<1>4. ~(ExecuteBuy \/ ExecuteSell \/ Place \/ LookupByTag \/ PollPlaced \/ QueueSignal)
    BY DEF ExecuteBuy, ExecuteSell, Place, LookupByTag, PollPlaced, QueueSignal, GoTo, Leave
<1>5. ~EntryStep
    BY DEF EntryStep, EntryPlaced, EntryRefused, EntryUnanswered, ReadFill, RecordFill, StopPlaced,
           StopFailed, SavePosition, GoTo, Leave
<1>6. ~ExitStep
    BY AfterExitType
    DEF ExitStep, SquareOff, CancelStop, PollCancel, VerifyStop, ExitPlaced, ExitFailed, RecordExit,
        GoTo, Leave
<1> QED
    BY <1>1, <1>2, <1>3, <1>4, <1>5, <1>6, StepTouches DEF Touches, EngineStep

LEMMA NoLatchedEntryStep ==
    ASSUME WellFormed, LatchInv, [Next]_vars PROVE NoEntryOnceLatched
<1>1. CASE BuysKept
    BY <1>1 DEF BuysKept, NoEntryOnceLatched
<1>2. CASE BuyAdded
    BY <1>2 DEF BuyAdded, LatchInv, Place, NoEntryOnceLatched
<1> QED
    BY <1>1, <1>2, BuysStep

\* Once check_entry has latched the daily loss (risk_manager.py:79-86), no buy
\* order reaches the exchange any more, whatever the P&L becomes.
THEOREM LatchIsFinal == Spec => LossLatchFinal
<1>1. Init => LatchInv
    BY DEF Init, LatchInv
<1>2. LatchInv /\ WellFormed /\ [Next]_vars => LatchInv'
    BY LatchStep
<1> QED
    BY <1>1, <1>2, NoLatchedEntryStep, SessionWellFormed, PTL DEF Spec, LossLatchFinal

(***************************************************************************)
(* A signal buys at most once                                              *)
(***************************************************************************)
BoughtFor == {book[i].tag : i \in Buys}

\* Signals are bought only after they were seen, and a signal that waits for
\* its candle, or is being executed, has not been bought yet.
SignalInv ==
    /\ OneEntryPerSignal
    /\ BoughtFor \subseteq seen
    /\ pending # NoSignal => pending \in seen \ BoughtFor
    /\ EntryComing => sid \in seen \ BoughtFor /\ pending = NoSignal

LEMMA PendingStep ==
    ASSUME [Next]_vars
    PROVE  \/ UNCHANGED <<pending, seen>>
           \/ pending' = NoSignal /\ seen' = seen
           \/ /\ QueueSignal /\ pending' \notin seen
              /\ seen' = seen \cup {pending'}
<1>1. CASE UNCHANGED engineVars
    BY <1>1 DEF engineVars
<1>2. CASE ReceiveCandle
    BY <1>2 DEF ReceiveCandle, IgnoreCandle, StartCandle, TakePending
<1>3. CASE EntryUnanswered \/ ReadFill \/ StopFailed \/ ExitFailed
    BY <1>3 DEF EntryUnanswered, ReadFill, StopFailed, ExitFailed, Halt, engineVars
<1>4. CASE QueueSignal
    BY <1>4 DEF QueueSignal
<1> QED
    BY <1>1, <1>2, <1>3, <1>4, StepTouches DEF Touches

LEMMA SignalStep == WellFormed /\ SignalInv /\ [Next]_vars => SignalInv'
<1> SUFFICES ASSUME WellFormed, SignalInv, [Next]_vars PROVE SignalInv'
    OBVIOUS
<1>1. CASE BuysKept
    <2>1. BoughtFor' = BoughtFor /\ OneEntryPerSignal'
        BY <1>1 DEF BuysKept, BoughtFor, SignalInv, OneEntryPerSignal
    <2>2. seen \subseteq seen'
        BY PendingStep
    <2>3. pending' # NoSignal => pending' \in seen' \ BoughtFor'
        BY <2>1, PendingStep DEF SignalInv
    <2>4. EntryComing' => sid' \in seen' \ BoughtFor' /\ pending' = NoSignal
        BY <2>1, <2>2, EntryComingStep DEF SignalInv, engineVars, TakePending
    <2> QED
        BY <2>1, <2>2, <2>3, <2>4 DEF SignalInv
<1>2. CASE BuyAdded
    <2>1. EntryComing /\ UNCHANGED engineVars
        BY <1>2 DEF BuyAdded, EntryComing, Place
    <2>2. PICK n \in Nat \ Buys : /\ Buys' = Buys \cup {n}
                                  /\ book'[n].tag = sid
                                  /\ \A i \in Buys : book'[i].tag = book[i].tag
        BY <1>2 DEF BuyAdded
    <2>3. BoughtFor' = BoughtFor \cup {sid}
        BY <2>2 DEF BoughtFor
    <2>4. OneEntryPerSignal'
        BY <2>1, <2>2 DEF SignalInv, OneEntryPerSignal, BoughtFor
    <2>5. ~EntryComing'
        BY <1>2 DEF BuyAdded, EntryComing, Place
    <2> QED
        BY <2>1, <2>3, <2>4, <2>5 DEF SignalInv, engineVars
<1> QED
    BY <1>1, <1>2, BuysStep

\* Whatever is lost, refused, re-delivered or times out, no signal puts two buy
\* orders on the exchange.
THEOREM SignalsBuyOnce == Spec => []OneEntryPerSignal
<1>1. Init => SignalInv
    <2>1. ASSUME Init PROVE Buys = {}
        BY <2>1 DEF Init, Buys
    <2> QED
        BY <2>1 DEF Init, SignalInv, OneEntryPerSignal, BoughtFor, EntryComing
<1>2. SignalInv => OneEntryPerSignal
    BY DEF SignalInv
<1> QED
    BY <1>1, <1>2, SignalStep, SessionWellFormed, PTL DEF Spec

(***************************************************************************)
(* One lot at a time: README.md:58 promises one position, and a live       *)
(* session keeps it, for every size of lot, trading window and number of   *)
(* trades, as long as two faults stay away, each of which breaks it:       *)
(*   - an unexpected exception of kite.place_order, which is reported as a *)
(*     refusal although the order is on the book (kite_broker.py:164);     *)
(*   - a failing positions(), which hides what is held (kite_broker.py:252)*)
(***************************************************************************)
Tags == {book[i].tag : i \in DOMAIN book}

(***************************************************************************)
(* A BUY signal is a candle older than any order for it.  So one that is   *)
(* queued, or being executed, is fresh: no order carries its tag.  (This,  *)
(* unlike the set of seen signals, outlives the process.)                  *)
(***************************************************************************)
TagInv ==
    /\ \A s \in Tags : s[1] = "BUY" => s[2] < candle
    /\ pc # "idle" => pending = NoSignal
    /\ pending[1] = "BUY" => pending[2] <= candle /\ pending \notin Tags
    /\ InCall /\ sid[1] = "BUY" => sid[2] < candle
    /\ EntryComing => sid[1] = "BUY" /\ sid \notin Tags

(***************************************************************************)
(* A buy order is placed with no buy open and nothing held.  That stays so *)
(* because an open buy either is the one being looked up or polled, or has *)
(* halted the broker; and because the lookup by tag finds that buy: no     *)
(* order carried the signal's tag before.                                  *)
(***************************************************************************)
BuysNeverRest == \A i \in Buys : book[i].status # "TRIGGER PENDING"

BuyAwaited ==
    \/ pc = "poll" /\ purpose = "ENTRY" /\ OpenBuys = {bid}
    \/ /\ pc = "lookup" /\ purpose = "ENTRY"
       /\ \E n \in OpenBuys : /\ OpenBuys = {n}
                              /\ \A j \in DOMAIN book : book[j].tag = sid => j = n

\* No buy is open when one is coming, and nothing held once it is decided on.
EntryAlone ==
    /\ EntryComing => brokerHalted \/ OpenBuys = {}
    /\ pc = "risk" \/ (pc = "place" /\ purpose = "ENTRY") => brokerHalted \/ net <= 0

LotBase == OneLot /\ BuysNeverRest /\ EntryAlone

LotInv == LotBase /\ (OpenBuys # {} => brokerHalted \/ BuyAwaited)

NoHiddenOrder == {"unexpected", "positions"} \cap Faults = {}

(***************************************************************************)
(* What a step does to the book and to the net position                    *)
(***************************************************************************)

\* A working order settles, for no more shares than it was placed for, and a
\* complete order has moved some shares.
Settles(i, s, f) ==
    /\ Settle(i, s, f)
    /\ book[i].status \in {"OPEN", "TRIGGER PENDING"}
    /\ f <= book[i].qty
    /\ s = "COMPLETE" => f = book[i].qty \/ f > 0

SettlesOne ==
    \E i \in DOMAIN book, s \in {"COMPLETE", "CANCELLED"}, f \in Nat : Settles(i, s, f)

Accepts == /\ Place /\ ~brokerHalted
           /\ Accept(NewOrder(sid, purpose, OrderQty))

LEMMA CancelKinds ==
    ASSUME WellFormed, NEW i \in Known, i # NoOrder, RequestCancel(i)
    PROVE  UNCHANGED exchangeVars \/ (Settle(i, "CANCELLED", 0) /\ SettlesOne)
<1> USE DEF WellFormed
<1>1. i \in DOMAIN book
    BY DEF Known, NoOrder, ExchangeTypeOK
<1>2. book[i].qty \in Nat
    <2>1. book[i] \in BookOrder
        BY <1>1 DEF ExchangeTypeOK
    <2> QED
        BY <2>1 DEF BookOrder
<1>3. CASE Working(i) /\ Settle(i, "CANCELLED", 0)
    <2>1. 0 <= book[i].qty
        BY <1>2
    <2>2. Settles(i, "CANCELLED", 0)
        BY <1>3, <2>1, Zenon DEF Settles, Working
    <2> QED
        BY <1>1, <1>3, <2>2 DEF SettlesOne
<1> QED
    BY <1>3 DEF RequestCancel

LEMMA ExchangeKinds ==
    ASSUME WellFormed, [Next]_vars
    PROVE  UNCHANGED exchangeVars \/ SettlesOne \/ Accepts
<1> USE DEF WellFormed
<1>1. CASE Place
    BY <1>1 DEF Place, PlaceAccepted, PlaceRefused, PlaceUnanswered, Accepts
<1>2. ASSUME NEW i \in Known, i # NoOrder, RequestCancel(i)
      PROVE  UNCHANGED exchangeVars \/ SettlesOne
    BY <1>2, CancelKinds
<1>3. CASE CancelStop
    BY <1>2, <1>3 DEF CancelStop, CallWF, exchangeVars
<1>4. CASE CancelNextEntry
    BY <1>2, <1>4 DEF CancelNextEntry, UiWF, exchangeVars
<1>5. CASE ExchangeMoves
    <2>1. PICK i \in DOMAIN book : Fill(i) \/ FillPart(i) \/ Trigger(i)
        BY <1>5 DEF ExchangeMoves, ExchangeStep
    <2>2. book[i].qty \in Nat
        <3>1. book[i] \in BookOrder
            BY DEF ExchangeTypeOK
        <3> QED
            BY <3>1 DEF BookOrder
    <2>3. CASE Fill(i) \/ Trigger(i)
        <3>1. book[i].qty <= book[i].qty
            BY <2>2
        <3>2. Settles(i, "COMPLETE", book[i].qty)
            BY <2>3, <3>1, Zenon DEF Fill, Trigger, Settles
        <3> QED
            BY <2>2, <3>2 DEF SettlesOne
    <2>4. CASE FillPart(i)
        <3>1. PICK f \in 0..(book[i].qty - 1) :
                  Settle(i, "CANCELLED", f) \/ (f > 0 /\ Settle(i, "COMPLETE", f))
            BY <2>4 DEF FillPart
        <3>2. f \in Nat /\ f <= book[i].qty
            BY <2>2, <3>1
        <3>3. Settles(i, "CANCELLED", f) \/ Settles(i, "COMPLETE", f)
            BY <2>4, <3>1, <3>2 DEF FillPart, Settles
        <3> QED
            BY <3>2, <3>3 DEF SettlesOne
    <2> QED
        BY <2>1, <2>3, <2>4
<1> QED
    BY <1>1, <1>3, <1>4, <1>5, StepTouches DEF Touches

LEMMA SettleEffect ==
    ASSUME ExchangeTypeOK, NEW i \in DOMAIN book, NEW s \in {"COMPLETE", "CANCELLED"},
           NEW f \in Nat, Settle(i, s, f)
    PROVE  /\ DOMAIN book' = DOMAIN book
           /\ \A j \in DOMAIN book : book'[j].side = book[j].side
           /\ \A j \in DOMAIN book : book'[j].tag = book[j].tag
           /\ \A j \in DOMAIN book : book'[j].qty = book[j].qty
           /\ \A j \in DOMAIN book : book[j].qty \in Nat
           /\ \A j \in DOMAIN book : j # i => book'[j].status = book[j].status
           /\ book'[i].status = s
           /\ net' = IF i \in Buys THEN net + f ELSE net - f
<1>1. \A j \in DOMAIN book : book[j] \in BookOrder
    BY DEF ExchangeTypeOK
<1>2. DOMAIN book' = DOMAIN book
    BY DEF Settle, ExchangeTypeOK
<1>3. \A j \in DOMAIN book : j # i => book'[j] = book[j]
    BY DEF Settle, ExchangeTypeOK
<1>4. book'[i] = [book[i] EXCEPT !.status = s, !.filled = f]
    BY DEF Settle, ExchangeTypeOK
<1>5. net' = IF i \in Buys THEN net + f ELSE net - f
    BY DEF Settle, Buys
<1>6. /\ book'[i].side = book[i].side /\ book'[i].tag = book[i].tag
      /\ book'[i].qty = book[i].qty /\ book'[i].status = s
    BY <1>1, <1>4 DEF BookOrder
<1>7. \A j \in DOMAIN book : book[j].qty \in Nat
    BY <1>1 DEF BookOrder
<1> QED
    BY <1>2, <1>3, <1>5, <1>6, <1>7

LEMMA SettleLot ==
    ASSUME ExchangeTypeOK, OneLot, BuysNeverRest, SettlesOne
    PROVE  /\ OneLot' /\ BuysNeverRest'
           /\ OpenBuys' \subseteq OpenBuys
           /\ OpenBuys = {} => net' <= net
           /\ Tags' = Tags /\ DOMAIN book' = DOMAIN book
           /\ \A j \in DOMAIN book : book'[j].tag = book[j].tag
<1>1. PICK i \in DOMAIN book, s \in {"COMPLETE", "CANCELLED"}, f \in Nat : Settles(i, s, f)
    BY DEF SettlesOne
<1>2. /\ DOMAIN book' = DOMAIN book
      /\ \A j \in DOMAIN book : book'[j].side = book[j].side
      /\ \A j \in DOMAIN book : book'[j].tag = book[j].tag
      /\ \A j \in DOMAIN book : book'[j].qty = book[j].qty
      /\ \A j \in DOMAIN book : book[j].qty \in Nat
      /\ \A j \in DOMAIN book : j # i => book'[j].status = book[j].status
      /\ book'[i].status = s
      /\ net' = IF i \in Buys THEN net + f ELSE net - f
    BY <1>1, SettleEffect DEF Settles
<1>3. Buys' = Buys /\ Buys \subseteq DOMAIN book
    BY <1>2 DEF Buys
<1>4. OpenBuys' = OpenBuys \ {i} /\ BuysNeverRest'
    <2>1. \A j \in Buys : j # i => book'[j].status = book[j].status
        BY <1>2, <1>3
    <2>2. OpenBuys' = {j \in Buys : book'[j].status = "OPEN"}
        BY <1>3 DEF OpenBuys
    <2> QED
        BY <1>2, <1>3, <2>1, <2>2 DEF OpenBuys, BuysNeverRest
<1>5. Tags' = Tags
    <2>1. Tags' = {book'[j].tag : j \in DOMAIN book}
        BY <1>2 DEF Tags
    <2> QED
        BY <1>2, <2>1 DEF Tags
<1>6. /\ net \in Int /\ LotQty \in Int /\ net <= LotQty
      /\ \A j \in OpenBuys : book'[j].qty = book[j].qty /\ book[j].qty \in Nat
      /\ \A j \in OpenBuys : net + book[j].qty <= LotQty
      /\ \A j, k \in OpenBuys : j = k
    <2>1. OpenBuys \subseteq DOMAIN book
        BY <1>3 DEF OpenBuys
    <2> QED
        BY <1>2, <2>1, SizesAssumption DEF ExchangeTypeOK, OneLot
<1>7. CASE net' <= net
    <2>1. net' \in Int
        BY <1>2, <1>6
    <2>2. OneLot'
        BY <1>4, <1>6, <1>7, <2>1 DEF OneLot
    <2> QED
        BY <1>2, <1>4, <1>5, <1>7, <2>2
<1>8. CASE ~(net' <= net)
    <2>1. i \in Buys /\ f # 0 /\ net' = net + f
        BY <1>2, <1>6, <1>8
    <2>2. i \in OpenBuys /\ f <= book[i].qty
        BY <1>1, <2>1 DEF Settles, BuysNeverRest, OpenBuys
    <2>3. OpenBuys' = {}
        BY <1>4, <1>6, <2>2
    <2>4. net' <= LotQty
        BY <1>6, <2>1, <2>2
    <2> QED
        BY <1>2, <1>4, <1>5, <2>2, <2>3, <2>4 DEF OneLot
<1> QED
    BY <1>7, <1>8

LEMMA AcceptEffect ==
    ASSUME ExchangeTypeOK, NEW o \in BookOrder, Accept(o)
    PROVE  LET n == Len(book) + 1 IN
           /\ n \notin DOMAIN book /\ DOMAIN book' = DOMAIN book \cup {n} /\ n = Len(book')
           /\ \A j \in DOMAIN book : book'[j] = book[j]
           /\ book'[n].side = o.side /\ book'[n].tag = o.tag /\ book'[n].qty = o.qty
           /\ book'[n].status \in {o.status, "REJECTED"}
           /\ net' = net
<1>1. PICK x \in BookOrder : /\ book' = Append(book, x)
                             /\ x.side = o.side /\ x.tag = o.tag /\ x.qty = o.qty
                             /\ x.status \in {o.status, "REJECTED"}
    <2>1. LET r == [o EXCEPT !.status = "REJECTED"] IN
             r \in BookOrder /\ r.side = o.side /\ r.tag = o.tag /\ r.qty = o.qty
                /\ r.status = "REJECTED"
        BY DEF BookOrder
    <2> QED
        BY <2>1 DEF Accept
<1>2. /\ Len(book) \in Nat /\ Len(book') = Len(book) + 1
      /\ DOMAIN book = 1..Len(book) /\ DOMAIN book' = 1..(Len(book) + 1)
      /\ book'[Len(book) + 1] = x
      /\ \A j \in DOMAIN book : book'[j] = book[j]
    BY <1>1 DEF ExchangeTypeOK
<1>3. net' = net
    BY DEF Accept
<1> QED
    BY <1>1, <1>2, <1>3

LEMMA AcceptsEffect ==
    ASSUME WellFormed, Accepts
    PROVE  LET n == Len(book) + 1 IN
           /\ n \notin DOMAIN book /\ DOMAIN book' = DOMAIN book \cup {n} /\ n = Len(book')
           /\ \A j \in DOMAIN book : book'[j] = book[j]
           /\ book'[n].tag = sid /\ book'[n].qty = OrderQty
           /\ book'[n].side = (IF purpose = "ENTRY" THEN "BUY" ELSE "SELL")
           /\ purpose = "ENTRY" => book'[n].status \in {"OPEN", "REJECTED"}
           /\ net' = net
<1> DEFINE o == NewOrder(sid, purpose, OrderQty)
<1>1. o \in BookOrder
    BY NewOrderType, OrderQtyType DEF Accepts, Place, WellFormed, CallWF, CallTypeOK
<1>2. /\ o.tag = sid /\ o.qty = OrderQty
      /\ o.side = (IF purpose = "ENTRY" THEN "BUY" ELSE "SELL")
      /\ purpose = "ENTRY" => o.status = "OPEN"
    BY DEF NewOrder
<1>3. Accept(o)
    BY DEF Accepts
<1> HIDE DEF o
<1> QED
    BY <1>1, <1>2, <1>3, AcceptEffect DEF WellFormed

(***************************************************************************)
(* Tags                                                                    *)
(***************************************************************************)
LEMMA TagsStep ==
    ASSUME WellFormed, [Next]_vars
    PROVE  Tags' = Tags \/ (Place /\ Tags' = Tags \cup {sid})
<1>1. CASE UNCHANGED exchangeVars
    BY <1>1 DEF exchangeVars, Tags
<1>2. CASE SettlesOne
    <2>1. PICK i \in DOMAIN book, s \in {"COMPLETE", "CANCELLED"}, f \in Nat : Settle(i, s, f)
        BY <1>2 DEF SettlesOne, Settles
    <2>2. DOMAIN book' = DOMAIN book /\ \A j \in DOMAIN book : book'[j].tag = book[j].tag
        BY <2>1, SettleEffect DEF WellFormed
    <2> QED
        BY <2>2 DEF Tags
<1>3. CASE Accepts
    <2> DEFINE n == Len(book) + 1
    <2>1. /\ DOMAIN book' = DOMAIN book \cup {n}
          /\ \A j \in DOMAIN book : book'[j] = book[j]
          /\ n \notin DOMAIN book /\ book'[n].tag = sid
        BY <1>3, AcceptsEffect
    <2> HIDE DEF n
    <2>2. Tags' = Tags \cup {sid}
        BY <2>1 DEF Tags
    <2> QED
        BY <1>3, <2>2 DEF Accepts
<1> QED
    BY <1>1, <1>2, <1>3, ExchangeKinds

\* Where the signal of a call comes from.
LEMMA SidStep ==
    ASSUME WellFormed, [Next]_vars, InCall'
    PROVE  \/ InCall /\ sid' = sid /\ ~ReceiveCandle
           \/ ReceiveCandle /\ pending # NoSignal /\ sid' = pending /\ UNCHANGED seen
           \/ SquareOff /\ candle \in Candles /\ sid' = <<"SQ", candle>>
<1> USE AfterExitType DEF InCall, Resting, GoTo, Leave
<1>1. CASE ReceiveCandle
    BY <1>1 DEF ReceiveCandle, IgnoreCandle, StartCandle, callVars
<1>2. CASE SquareOff
    BY <1>2 DEF SquareOff, WellFormed, CallWF
<1>3. CASE UNCHANGED callVars
    BY <1>3 DEF callVars, ReceiveCandle, IgnoreCandle, StartCandle
<1>4. CASE EngineStep /\ ~SquareOff
    <2> USE DEF ReceiveCandle, IgnoreCandle, StartCandle
    <2>1. CASE ExecuteBuy \/ ExecuteSell \/ RiskCheck \/ Place \/ LookupByTag \/ PollPlaced \/ QueueSignal
        BY <2>1 DEF ExecuteBuy, ExecuteSell, RiskCheck, Place, LookupByTag, PollPlaced, QueueSignal
    <2>2. CASE EntryStep
        BY <2>2 DEF EntryStep, EntryPlaced, EntryRefused, EntryUnanswered, ReadFill, RecordFill,
                    StopPlaced, StopFailed, SavePosition
    <2>3. CASE CancelStop \/ PollCancel \/ VerifyStop \/ ExitPlaced \/ ExitFailed \/ RecordExit
        BY <2>3 DEF CancelStop, PollCancel, VerifyStop, ExitPlaced, ExitFailed, RecordExit
    <2> QED
        BY <1>4, <2>1, <2>2, <2>3 DEF EngineStep, ExitStep
<1> QED
    BY <1>1, <1>2, <1>3, <1>4, StepTouches DEF Touches

\* A handler under way has no signal pending until it queues one and returns.
LEMMA PendingInCall ==
    ASSUME [Next]_vars, pc # "idle" => pending = NoSignal, pc' # "idle"
    PROVE  pending' = NoSignal
<1>1. CASE UNCHANGED callVars
    BY <1>1, PendingStep DEF callVars, QueueSignal, Leave
<1>2. CASE ReceiveCandle
    BY <1>2 DEF ReceiveCandle, IgnoreCandle, StartCandle, TakePending, callVars
<1>3. CASE EngineStep
    <2>1. pc # "idle"
        BY <1>3 DEF EngineStep, EntryStep, ExitStep, ExecuteBuy, ExecuteSell, RiskCheck, Place,
                    LookupByTag, PollPlaced, QueueSignal, EntryPlaced, EntryRefused, EntryUnanswered,
                    ReadFill, RecordFill, StopPlaced, StopFailed, SavePosition, SquareOff, CancelStop,
                    PollCancel, VerifyStop, ExitPlaced, ExitFailed, RecordExit
    <2> QED
        BY <2>1, PendingStep DEF QueueSignal, Leave
<1> QED
    BY <1>1, <1>2, <1>3, StepTouches DEF Touches

\* The feed never goes back.
LEMMA CandleStep ==
    ASSUME [Next]_vars PROVE UNCHANGED candle \/ (ReceiveCandle /\ candle' >= candle)
<1>1. CASE UNCHANGED engineVars
    BY <1>1 DEF engineVars
<1>2. CASE ReceiveCandle
    BY <1>2 DEF ReceiveCandle, IgnoreCandle, StartCandle
<1>3. CASE EntryUnanswered \/ ReadFill \/ StopFailed \/ ExitFailed \/ QueueSignal
    BY <1>3 DEF EntryUnanswered, ReadFill, StopFailed, ExitFailed, QueueSignal, Halt, engineVars
<1> QED
    BY <1>1, <1>2, <1>3, StepTouches DEF Touches

LEMMA SignalNumbers ==
    ASSUME WellFormed
    PROVE  /\ \A s \in Tags : s[2] \in Int
           /\ sid[2] \in Int /\ pending[2] \in Int
           /\ NoSignal[1] # "BUY"
<1>1. \A s \in SignalIds \cup {NoSignal} : s[2] \in Int
    BY SizesAssumption DEF SignalIds, NoSignal, Candles
<1>2. \A i \in DOMAIN book : book[i].tag \in SignalIds \cup {NoSignal}
    <2>1. \A i \in DOMAIN book : book[i] \in BookOrder
        BY DEF WellFormed, ExchangeTypeOK
    <2> QED
        BY <2>1 DEF BookOrder
<1>3. {sid, pending} \subseteq SignalIds \cup {NoSignal}
    BY DEF WellFormed, EngineTypeOK, CallWF, CallTypeOK
<1>4. NoSignal[1] # "BUY"
    BY DEF NoSignal
<1> QED
    BY <1>1, <1>2, <1>3, <1>4 DEF Tags

LEMMA TagInvStep ==
    ASSUME WellFormed, TagInv, [Next]_vars
    PROVE  TagInv'
<1>1. /\ candle \in Int /\ candle' \in Int /\ candle <= candle'
      /\ ~ReceiveCandle => candle' = candle
    <2>1. candle \in Int /\ candle' \in Int
        BY EngineTypeStep, SizesAssumption DEF WellFormed, EngineTypeOK
    <2> QED
        BY <2>1, CandleStep
<1>2. /\ \A s \in Tags : s[2] \in Int
      /\ sid[2] \in Int /\ pending[2] \in Int /\ NoSignal[1] # "BUY"
    BY SignalNumbers
<1>3. Place => InCall /\ pc # "idle" /\ ~EntryComing' /\ ~ReceiveCandle
    BY DEF Place, InCall, Resting, EntryComing, ReceiveCandle, IgnoreCandle, StartCandle
<1>4. \A s \in Tags' : s[1] = "BUY" => s[2] < candle'
    BY <1>1, <1>2, <1>3, TagsStep DEF TagInv
<1>5. pc' # "idle" => pending' = NoSignal
    BY PendingInCall DEF TagInv
<1>6. pending'[1] = "BUY" => pending'[2] <= candle' /\ pending' \notin Tags'
    <2>1. CASE UNCHANGED pending
        BY <1>1, <1>2, <1>3, <2>1, TagsStep DEF TagInv
    <2>2. CASE pending' = NoSignal
        BY <1>2, <2>2
    <2>3. CASE QueueSignal /\ ~UNCHANGED pending
        <3>1. PICK s \in {"BUY", "SELL"} : pending' = <<s, candle>>
            BY <2>3 DEF QueueSignal, SignalsGiven
        <3>2. Tags' = Tags /\ candle' = candle
            BY <2>3, TagsStep DEF QueueSignal, Place
        <3> QED
            BY <1>1, <3>1, <3>2 DEF TagInv
    <2> QED
        BY <2>1, <2>2, <2>3, PendingStep
<1>7. ASSUME ReceiveCandle, pending # NoSignal, InCall'
      PROVE  /\ pending[2] < candle'
             /\ pc' = "buy" => pending[1] = "BUY"
    BY <1>2, <1>7 DEF ReceiveCandle, IgnoreCandle, StartCandle, InCall, Resting, callVars
<1>8. InCall' /\ sid'[1] = "BUY" => sid'[2] < candle'
    BY <1>1, <1>7, SidStep DEF TagInv
<1>9. ASSUME EntryComing' PROVE sid'[1] = "BUY" /\ sid' \notin Tags'
    <2>1. Tags' = Tags /\ InCall'
        BY <1>3, <1>9, TagsStep DEF EntryComing, InCall, Resting
    <2> QED
        BY <1>7, <1>9, <2>1, EntryComingStep DEF TagInv
<1> QED
    BY <1>4, <1>5, <1>6, <1>8, <1>9 DEF TagInv

(***************************************************************************)
(* One lot                                                                 *)
(***************************************************************************)
LEMMA BrokerHaltStays == ASSUME [Next]_vars PROVE brokerHalted => brokerHalted'
<1>1. CASE UNCHANGED kiteVars
    BY <1>1 DEF kiteVars
<1>2. CASE Place
    BY <1>2 DEF Place, PlaceAccepted, PlaceRefused, PlaceUnanswered, kiteVars
<1>3. CASE LookupByTag
    BY <1>3 DEF LookupByTag, LookupFinds, LookupFails, kiteVars
<1>4. CASE PollPlaced \/ PollCancel \/ PollCancelledEntry
    BY <1>4 DEF PollPlaced, PollCancel, PollCancelledEntry, Poll, PollSettles, PollTimesOut
<1> QED
    BY <1>1, <1>2, <1>3, <1>4, StepTouches DEF Touches

\* A new buy finds no other buy open and nothing held.
LEMMA BuyPlaced ==
    ASSUME NoHiddenOrder, WellFormed, TagInv, LotBase, Accepts, purpose = "ENTRY"
    PROVE  /\ OneLot' /\ BuysNeverRest'
           /\ OpenBuys' # {} => BuyAwaited'
<1> DEFINE n == Len(book) + 1
<1>1. /\ n \notin DOMAIN book /\ DOMAIN book' = DOMAIN book \cup {n} /\ n = Len(book')
      /\ \A j \in DOMAIN book : book'[j] = book[j]
      /\ book'[n].tag = sid /\ book'[n].qty = LotQty
      /\ book'[n].side = "BUY"
      /\ book'[n].status \in {"OPEN", "REJECTED"}
      /\ net' = net
    BY AcceptsEffect DEF OrderQty
<1> HIDE DEF n
<1>2. OpenBuys = {} /\ net <= 0 /\ sid \notin Tags
    BY DEF LotBase, EntryAlone, TagInv, Accepts, Place, EntryComing
<1>3. Buys' = Buys \cup {n} /\ Buys \subseteq DOMAIN book
    BY <1>1 DEF Buys
<1>4. OpenBuys' \subseteq {n} /\ BuysNeverRest'
    BY <1>1, <1>2, <1>3 DEF OpenBuys, BuysNeverRest, LotBase
<1>5. OneLot'
    <2>1. net' <= LotQty /\ net' + LotQty <= LotQty
        BY <1>1, <1>2, SizesAssumption DEF WellFormed, ExchangeTypeOK
    <2> QED
        BY <1>1, <1>4, <2>1 DEF OneLot
<1>6. \A j \in DOMAIN book' : book'[j].tag = sid => j = n
    BY <1>1, <1>2 DEF Tags
<1>7. ASSUME OpenBuys' # {} PROVE BuyAwaited'
    <2>1. OpenBuys' = {n}
        BY <1>4, <1>7
    <2>2. sid' = sid /\ purpose' = "ENTRY"
        BY DEF Accepts, Place
    <2>3. (pc' = "poll" /\ bid' = Len(book')) \/ pc' = "lookup"
        BY <1>1 DEF Accepts, Place, PlaceRefused, NoHiddenOrder, exchangeVars
    <2> QED
        BY <1>1, <1>6, <2>1, <2>2, <2>3 DEF BuyAwaited
<1> QED
    BY <1>4, <1>5, <1>7

LEMMA SellPlaced ==
    ASSUME WellFormed, LotBase, Accepts, purpose # "ENTRY"
    PROVE  OneLot' /\ BuysNeverRest' /\ OpenBuys' = OpenBuys
<1> DEFINE n == Len(book) + 1
<1>1. /\ DOMAIN book' = DOMAIN book \cup {n}
      /\ \A j \in DOMAIN book : book'[j] = book[j]
      /\ book'[n].side = "SELL"
      /\ net' = net
    BY AcceptsEffect
<1> HIDE DEF n
<1>2. Buys' = Buys /\ Buys \subseteq DOMAIN book
    BY <1>1 DEF Buys
<1>3. OpenBuys' = OpenBuys /\ BuysNeverRest'
    BY <1>1, <1>2 DEF OpenBuys, BuysNeverRest, LotBase
<1>4. OpenBuys \subseteq DOMAIN book
    BY <1>2 DEF OpenBuys
<1> QED
    BY <1>1, <1>3, <1>4 DEF OneLot, LotBase

LEMMA LotStep ==
    ASSUME NoHiddenOrder, WellFormed, TagInv, LotBase, [Next]_vars
    PROVE  /\ OneLot' /\ BuysNeverRest'
           /\ \/ OpenBuys' \subseteq OpenBuys /\ (OpenBuys = {} => net' <= net)
              \/ BuyAwaited'
<1>1. CASE UNCHANGED exchangeVars
    <2>1. net \in Int /\ net' = net /\ book' = book
        BY <1>1 DEF WellFormed, ExchangeTypeOK, exchangeVars
    <2>2. Buys' = Buys
        BY <2>1 DEF Buys
    <2>3. OpenBuys' = OpenBuys
        BY <2>1, <2>2 DEF OpenBuys
    <2>4. OneLot' /\ BuysNeverRest'
        BY <2>1, <2>2, <2>3 DEF LotBase, OneLot, BuysNeverRest
    <2>5. net' <= net
        BY <2>1
    <2> QED
        BY <2>3, <2>4, <2>5
<1>2. CASE SettlesOne
    BY <1>2, SettleLot DEF WellFormed, LotBase
<1>3. CASE Accepts /\ purpose = "ENTRY"
    <2>1. net' = net /\ net \in Int
        BY <1>3 DEF Accepts, Accept, WellFormed, ExchangeTypeOK
    <2> QED
        BY <1>3, <2>1, BuyPlaced
<1>4. CASE Accepts /\ purpose # "ENTRY"
    <2>1. net' = net /\ net \in Int
        BY <1>4 DEF Accepts, Accept, WellFormed, ExchangeTypeOK
    <2> QED
        BY <1>4, <2>1, SellPlaced
<1> QED
    BY <1>1, <1>2, <1>3, <1>4, ExchangeKinds

LEMMA WaitingSteps ==
    ASSUME [Next]_vars, pc \in {"poll", "lookup"}
    PROVE  UNCHANGED callVars \/ PollPlaced \/ LookupByTag
<1>1. ~ReceiveCandle \/ UNCHANGED callVars
    BY DEF ReceiveCandle, IgnoreCandle, StartCandle
<1>2. ~(ExecuteBuy \/ ExecuteSell \/ RiskCheck \/ Place \/ QueueSignal)
    BY DEF ExecuteBuy, ExecuteSell, RiskCheck, Place, QueueSignal
<1>3. ~EntryStep
    BY DEF EntryStep, EntryPlaced, EntryRefused, EntryUnanswered, ReadFill, RecordFill, StopPlaced,
           StopFailed, SavePosition
<1>4. ~ExitStep
    BY DEF ExitStep, SquareOff, CancelStop, PollCancel, VerifyStop, ExitPlaced, ExitFailed, RecordExit
<1> QED
    BY <1>1, <1>2, <1>3, <1>4, StepTouches DEF Touches, EngineStep

\* The engine waits for a buy while it is open, unless the broker halts.
LEMMA AwaitStep ==
    ASSUME NoHiddenOrder, WellFormed, TagInv, LotBase, [Next]_vars, BuyAwaited
    PROVE  OpenBuys' # {} => brokerHalted' \/ BuyAwaited'
<1> SUFFICES ASSUME OpenBuys' # {}, ~brokerHalted', ~BuyAwaited' PROVE FALSE
    OBVIOUS
<1>1. OpenBuys' \subseteq OpenBuys /\ ~brokerHalted /\ BuyAwaited
    BY LotStep, BrokerHaltStays
<1>2. PICK n \in OpenBuys : OpenBuys = {n} /\ OpenBuys' = {n}
    BY <1>1 DEF BuyAwaited
<1>3. n \in DOMAIN book /\ book[n].status = "OPEN"
    BY <1>2 DEF OpenBuys, Buys
<1>4. DOMAIN book' = DOMAIN book /\ \A j \in DOMAIN book : book'[j].tag = book[j].tag
    <2>1. ~Accepts
        BY <1>1 DEF Accepts, Place, BuyAwaited
    <2> QED
        BY <2>1, ExchangeKinds, SettleLot DEF WellFormed, LotBase, exchangeVars
<1>5. CASE UNCHANGED callVars
    BY <1>1, <1>2, <1>4, <1>5 DEF BuyAwaited, callVars
<1>6. CASE PollPlaced
    <2>1. bid = n
        BY <1>1, <1>2, <1>6 DEF PollPlaced, BuyAwaited
    <2>2. PollSettles(n)
        BY <1>6, <2>1 DEF PollPlaced, Poll, PollTimesOut
    <2>3. MapKiteStatus("OPEN") \notin TerminalStatuses \cup {"TRIGGER_PENDING"}
        BY DEF MapKiteStatus, StatusMap, TerminalStatuses
    <2> QED
        BY <1>3, <2>2, <2>3 DEF PollSettles
<1>7. CASE LookupByTag
    <2>1. \A j \in DOMAIN book : book[j].tag = sid => j = n
        BY <1>1, <1>2, <1>7 DEF LookupByTag, BuyAwaited
    <2>2. PICK i \in DOMAIN book : LookupFinds(sid, i) /\ bid' = i /\ pc' = "poll"
        BY <1>7 DEF LookupByTag, LookupFails
    <2>3. i = n
        BY <2>1, <2>2 DEF LookupFinds, FirstWithTag
    <2> QED
        BY <1>1, <1>2, <1>7, <2>2, <2>3 DEF LookupByTag, BuyAwaited
<1> QED
    BY <1>1, <1>5, <1>6, <1>7, WaitingSteps DEF BuyAwaited

LEMMA OnlyExecuteBuy ==
    ASSUME [Next]_vars, pc = "buy" PROVE UNCHANGED callVars \/ ExecuteBuy
<1>1. ~ReceiveCandle \/ UNCHANGED callVars
    BY DEF ReceiveCandle, IgnoreCandle, StartCandle
<1>2. ~(ExecuteSell \/ RiskCheck \/ Place \/ LookupByTag \/ PollPlaced \/ QueueSignal)
    BY DEF ExecuteSell, RiskCheck, Place, LookupByTag, PollPlaced, QueueSignal
<1>3. ~EntryStep
    BY DEF EntryStep, EntryPlaced, EntryRefused, EntryUnanswered, ReadFill, RecordFill, StopPlaced,
           StopFailed, SavePosition
<1>4. ~ExitStep
    BY DEF ExitStep, SquareOff, CancelStop, PollCancel, VerifyStop, ExitPlaced, ExitFailed, RecordExit
<1> QED
    BY <1>1, <1>2, <1>3, <1>4, StepTouches DEF Touches, EngineStep

\* Nothing is held when an entry passes the risk check.
LEMMA FlatStep ==
    ASSUME NoHiddenOrder, WellFormed, LotBase, TagInv, [Next]_vars,
           pc' = "risk" \/ (pc' = "place" /\ purpose' = "ENTRY")
    PROVE  brokerHalted' \/ net' <= 0
<1> DEFINE Deciding == pc = "risk" \/ (pc = "place" /\ purpose = "ENTRY")
<1>1. EntryComing'
    BY DEF EntryComing
<1>2. EntryComing /\ ~ReceiveCandle
    BY <1>1, EntryComingStep DEF EntryComing, ReceiveCandle, StartCandle, IgnoreCandle
<1>3. CASE ExecuteBuy
    <2>1. net' = net /\ net \in Int
        BY <1>3 DEF ExecuteBuy, exchangeVars, WellFormed, ExchangeTypeOK
    <2>2. NoPosition \in OpenPositions
        BY <1>3 DEF ExecuteBuy, Leave
    <2>3. net <= 0
        BY <2>1, <2>2 DEF OpenPositions, BrokerPositions, NoPosition, NoHiddenOrder
    <2> QED
        BY <2>1, <2>3
<1>4. CASE Deciding
    <2>1. brokerHalted \/ (net <= 0 /\ OpenBuys = {})
        BY <1>2, <1>4 DEF LotBase, EntryAlone
    <2>2. net \in Int /\ net' \in Int
        BY BookStep DEF WellFormed, ExchangeTypeOK
    <2>3. ~BuyAwaited'
        BY DEF BuyAwaited
    <2>4. brokerHalted \/ net' <= net
        BY <2>1, <2>3, LotStep
    <2> QED
        BY <2>1, <2>2, <2>4, BrokerHaltStays
<1>5. ExecuteBuy \/ Deciding
    BY <1>2, OnlyExecuteBuy DEF EntryComing, callVars
<1> QED
    BY <1>3, <1>4, <1>5

LotAndTags == TagInv /\ LotInv

LEMMA LotAndTagsInit == Init => LotAndTags
<1> SUFFICES ASSUME Init PROVE LotAndTags
    OBVIOUS
<1>1. Tags = {} /\ Buys = {} /\ OpenBuys = {}
    BY DEF Init, Tags, Buys, OpenBuys
<1>2. TagInv
    BY <1>1 DEF Init, TagInv, EntryComing, InCall, Resting, NoSignal
<1>3. LotInv
    BY <1>1, SizesAssumption DEF Init, LotInv, LotBase, EntryAlone, EntryComing, OneLot, BuysNeverRest
<1> QED
    BY <1>2, <1>3 DEF LotAndTags

LEMMA LotAndTagsStep ==
    ASSUME NoHiddenOrder, WellFormed, LotAndTags, [Next]_vars
    PROVE  LotAndTags'
<1>1. TagInv'
    BY TagInvStep DEF LotAndTags
<1>2. LotInv'
    <2>1. OneLot' /\ BuysNeverRest'
        BY LotStep DEF LotAndTags, LotInv
    <2>2. OpenBuys' # {} => brokerHalted' \/ BuyAwaited'
        BY LotStep, AwaitStep, BrokerHaltStays DEF LotAndTags, LotInv
    <2>3. EntryComing' => brokerHalted' \/ OpenBuys' = {}
        BY <2>2 DEF EntryComing, BuyAwaited
    <2>4. pc' = "risk" \/ (pc' = "place" /\ purpose' = "ENTRY") => brokerHalted' \/ net' <= 0
        BY FlatStep DEF LotAndTags, LotInv
    <2> QED
        BY <2>1, <2>2, <2>3, <2>4 DEF LotInv, LotBase, EntryAlone
<1> QED
    BY <1>1, <1>2 DEF LotAndTags

\* One position at a time (README.md:58): what is held and what is still being
\* bought never come to more than one lot, through lost answers, timeouts,
\* partial fills, rejections, database errors and emergency stops alike, as
\* long as no order and no position hides from the engine.
THEOREM OneLotAtATime == ASSUME NoHiddenOrder PROVE Spec => []OneLot
<1>1. LotAndTags => OneLot
    BY DEF LotAndTags, LotInv, LotBase
<1>2. WellFormed /\ LotAndTags /\ [Next]_vars => LotAndTags'
    BY LotAndTagsStep
<1> QED
    BY <1>1, <1>2, LotAndTagsInit, SessionWellFormed, PTL DEF Spec

=============================================================================
