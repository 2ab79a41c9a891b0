---------------------------- MODULE LiveRecovery -----------------------------
(***************************************************************************)
(* A live session that may die and be started again, and whose user may    *)
(* flatten its position (EmergencyStop.flatten_all).                       *)
(*                                                                         *)
(* A crash loses everything the process kept in memory: the engine's       *)
(* queue, flags and locals, the adapter's cache and halt flag, safe mode,  *)
(* and the UI thread if the UI lives in the same process.  The database    *)
(* and the account stay as they are, and the exchange goes on.  A new      *)
(* process starts with the reconciliation its Reconciler provides          *)
(* (tests/test_reconciliation.py:111).                                     *)
(*                                                                         *)
(* flatten_all runs on the UI thread, one step per call it makes:          *)
(*   ready -> flatCancel -> (flatPollCancel) -> flatInsert -> flatPlace    *)
(*         -> flatPoll -> flatUpdate -> flatDelete -> ready                *)
(***************************************************************************)
EXTENDS LiveSafety

CONSTANTS
    MaxCrashes,    \* bound: crashes of the engine's process
    MaxFlattens    \* bound: confirmed calls of flatten_all that find a position

ASSUME RecoveryBounds == {MaxCrashes, MaxFlattens} \subseteq Nat

VARIABLES
    crashes,       \* crashes so far
    flattens,      \* flattens so far
    flatPos,       \* the position flatten_all read from the database
    flatBid,       \* the broker order id of its exit
    entryLimit,    \* history: buys there may be since the kill switch was last set
    cutShort       \* history: did a crash interrupt flatten_all?

flatVars     == <<flattens, flatPos, flatBid>>
recoveryVars == <<crashes, flatVars, entryLimit, cutShort>>
allVars      == <<vars, recoveryVars>>

RecoveryInit ==
    /\ Init
    /\ crashes = 0
    /\ flattens = 0 /\ flatPos = NoPosition /\ flatBid = NoOrder
    /\ entryLimit = 0 /\ cutShort = FALSE

Down == pc = "down"

(***************************************************************************)
(* Crash and restart                                                       *)
(***************************************************************************)
Flattening == uiPc \in {"flatCancel", "flatPollCancel", "flatInsert", "flatPlace",
                        "flatPoll", "flatUpdate", "flatDelete"}

UiDies ==
    /\ uiPc' = "ready" /\ uiTodo' = {} /\ uiOrder' = NoRow
    /\ flatPos' = NoPosition /\ flatBid' = NoOrder
    /\ UNCHANGED <<stops, flattens>>

Crash ==
    /\ ~Down
    /\ crashes < MaxCrashes
    /\ crashes' = crashes + 1
    /\ Leave("down")
    /\ pending' = NoSignal /\ seen' = {} /\ halted' = FALSE
    /\ networkBlocked' = FALSE /\ feedStale' = FALSE /\ safeMode' = FALSE
    /\ brokerHalted' = FALSE /\ orderInfo' = << >>
    /\ IF UiHasBroker
          THEN UiDies /\ cutShort' = (cutShort \/ Flattening)
          ELSE UNCHANGED <<uiVars, flatVars, cutShort>>
    /\ UNCHANGED <<exchangeVars, dbVars, candle, entryLimit>>

\* Wrong on purpose: the engine trades on without reconciling.
RestartBlindly ==
    /\ Down
    /\ GoTo("idle")
    /\ UNCHANGED <<exchangeVars, kiteVars, dbVars, engineVars, flagVars, uiVars, recoveryVars>>

Restart ==
    /\ Down
    /\ GoTo("idle")
    /\ IF HasReconciler THEN Reconcile ELSE UNCHANGED safeMode
    /\ UNCHANGED <<exchangeVars, kiteVars, dbVars, engineVars, networkBlocked, feedStale,
                   uiVars, recoveryVars>>

(***************************************************************************)
(* EmergencyStop.flatten_all                                               *)
(***************************************************************************)
flatFrame == <<engineVars, flagVars, callVars, uiTodo, uiOrder, stops,
               crashes, entryLimit, cutShort>>

\* The exit's row has no signal id; its own number keeps it apart.
FlattenKey == <<<<"FLAT", flattens>>, "EXIT">>

\* With no recorded position flatten_all does nothing.
StartFlatten ==
    /\ uiPc = "ready" /\ UiHasBroker
    /\ flattens < MaxFlattens
    /\ dbPosition # NoPosition
    /\ flattens' = flattens + 1
    /\ flatPos' = dbPosition
    /\ uiPc' = "flatCancel"
    /\ UNCHANGED <<exchangeVars, kiteVars, dbVars, flatBid, flatFrame>>

FlattenCancelsStop ==
    /\ uiPc = "flatCancel"
    /\ IF flatPos.stop = NoOrder
          THEN uiPc' = "flatInsert" /\ UNCHANGED <<exchangeVars, kiteVars>>
          ELSE uiPc' = "flatPollCancel" /\ RequestCancel(flatPos.stop)
    /\ UNCHANGED <<dbVars, flatVars, flatFrame>>

FlattenPollsStop ==
    /\ uiPc = "flatPollCancel"
    /\ Poll(flatPos.stop)
    /\ uiPc' = "flatInsert"
    /\ UNCHANGED <<dbVars, flatVars, flatFrame>>

\* Unlike the exit's placement, a failing INSERT ends flatten_all.
FlattenRecordsExit ==
    /\ uiPc = "flatInsert"
    /\ \/ InsertOrder(FlattenKey, "CREATED", NoOrder) /\ uiPc' = "flatPlace"
       \/ InsertFails(FlattenKey) /\ uiPc' = "ready"
    /\ UNCHANGED <<exchangeVars, kiteVars, dbPosition, tradedQty, killSwitch, lossLatch,
                   flatVars, flatFrame>>

\* Without a signal id there is no tag to look up, so that a placement without
\* an answer halts the adapter.  Every failure is logged and passed over.
FlattenPlacesExit ==
    /\ uiPc = "flatPlace"
    /\ LET o == NewOrder(NoSignal, "EXIT", flatPos.qty) IN
          \/ PlaceAccepted(o) /\ flatBid' = Len(book') /\ uiPc' = "flatPoll"
          \/ PlaceRefused(o) /\ UNCHANGED flatBid /\ uiPc' = "flatDelete"
          \/ /\ ~brokerHalted /\ "network" \in Faults
             /\ Accept(o) \/ UNCHANGED exchangeVars
             /\ brokerHalted' = TRUE
             /\ uiPc' = "flatDelete"
             /\ UNCHANGED <<orderInfo, flatBid>>
    /\ UNCHANGED <<dbVars, flattens, flatPos, flatFrame>>

FlattenPollsExit ==
    /\ uiPc = "flatPoll"
    /\ Poll(flatBid)
    /\ uiPc' = "flatUpdate"
    /\ UNCHANGED <<dbVars, flatVars, flatFrame>>

FlattenUpdatesRow ==
    /\ uiPc = "flatUpdate"
    /\ dbOrders' = [dbOrders EXCEPT ![FlattenKey] = [status |-> "SUBMITTED", bid |-> flatBid]]
    /\ uiPc' = "flatDelete"
    /\ UNCHANGED <<exchangeVars, kiteVars, dbPosition, tradedQty, killSwitch, lossLatch,
                   flatVars, flatFrame>>

\* Wrong on purpose: the row stays for the next flatten_all to find.
FlattenKeepsPosition ==
    /\ uiPc = "flatDelete"
    /\ uiPc' = "ready" /\ flatPos' = NoPosition /\ flatBid' = NoOrder
    /\ UNCHANGED <<exchangeVars, kiteVars, dbVars, flattens, flatFrame>>

\* Whether or not the exit was placed.
FlattenDeletesPosition ==
    /\ uiPc = "flatDelete"
    /\ dbPosition' = NoPosition
    /\ uiPc' = "ready" /\ flatPos' = NoPosition /\ flatBid' = NoOrder
    /\ UNCHANGED <<exchangeVars, kiteVars, dbOrders, tradedQty, killSwitch, lossLatch,
                   flattens, flatFrame>>

FlattenStep == StartFlatten \/ FlattenCancelsStop \/ FlattenPollsStop \/ FlattenRecordsExit
                  \/ FlattenPlacesExit \/ FlattenPollsExit \/ FlattenUpdatesRow
                  \/ FlattenDeletesPosition

(***************************************************************************)
(* The system                                                              *)
(***************************************************************************)

\* An entry whose checks are done, but whose order is not yet at the broker.
EntryUnderWay == pc = "place" /\ purpose = "ENTRY"

EngineRuns == /\ ~Down
              /\ ReceiveCandle \/ EngineStep \/ Notify
              /\ UNCHANGED recoveryVars

UiRuns ==
    /\ UiHasBroker => ~Down
    /\ \/ /\ PressStop
          /\ entryLimit' = Cardinality(Buys) + (IF EntryUnderWay THEN 1 ELSE 0)
          /\ UNCHANGED <<crashes, flatVars, cutShort>>
       \/ (UiStep \/ ClearKillSwitch) /\ UNCHANGED recoveryVars
       \/ FlattenStep

RecoveryNext == EngineRuns \/ UiRuns \/ Crash \/ Restart
                   \/ (ExchangeMoves /\ UNCHANGED recoveryVars)

RecoverySpec == RecoveryInit /\ [][RecoveryNext]_allVars

(***************************************************************************)
(* What survives a crash                                                   *)
(***************************************************************************)

\* risk_manager.py:67: after an emergency stop only an entry that had passed its
\* checks already may still reach the exchange, and no other until the switch is
\* cleared, however often the process dies.
KillSwitchHolds == killSwitch => Cardinality(Buys) <= entryLimit

\* reconciliation.py:84: a position recorded without a stop keeps the engine
\* from trading also when the restart has cleared its halt flag.
UnprotectedStaysBlocked ==
    dbPosition # NoPosition /\ dbPosition.stop = NoOrder => halted \/ safeMode \/ Down

FlattenSales == {i \in DOMAIN book : book[i].tag = NoSignal /\ book[i].status # "REJECTED"}
Bought       == {i \in Buys : book[i].status = "COMPLETE"}

\* emergency_stop.py:100: flatten_all sells for a recorded position once, so it
\* never sells more often than an entry was filled; a crash in its middle
\* excepted, after which the row is found again.
FlattensOnce == ~cutShort => Cardinality(FlattenSales) <= Cardinality(Bought)

=============================================================================
