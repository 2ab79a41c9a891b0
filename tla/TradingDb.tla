------------------------------ MODULE TradingDb ------------------------------
(***************************************************************************)
(* db.py: the tables the live path reads and writes.  Every operation is   *)
(* one committed statement under the connection's lock, so it is one step; *)
(* the engine thread and the UI thread interleave between statements.      *)
(***************************************************************************)
EXTENDS KiteBroker, FiniteSets

CONSTANT MaxTrades   \* TradingConfig.max_trades_per_day

ASSUME MaxTradesAssumption == MaxTrades \in Nat \ {0}

VARIABLES
    dbOrders,     \* orders table, keyed by UNIQUE(signal_id, purpose)
    dbPosition,   \* the one row of positions for the symbol, or NoPosition
    tradedQty,    \* shares sold according to the trades table
    killSwitch,   \* settings: kill_switch
    lossLatch     \* settings: daily_loss_halt of the day

dbVars == <<dbOrders, dbPosition, tradedQty, killSwitch, lossLatch>>

DbInit == /\ dbOrders = << >>
          /\ dbPosition = NoPosition
          /\ tradedQty = 0
          /\ killSwitch = FALSE
          /\ lossLatch = FALSE

\* (signal_id, purpose).  flatten_all's exits have no signal id, only a number.
OrderKeys == (SignalIds \cup ({"FLAT"} \X Nat)) \X OrderPurpose

InsertOrder(key, status, id) ==
    /\ key \notin DOMAIN dbOrders
    /\ dbOrders' = [k \in DOMAIN dbOrders \cup {key} |->
                       IF k = key THEN [status |-> status, bid |-> id] ELSE dbOrders[k]]

\* The UNIQUE constraint, or a database error.
InsertFails(key) ==
    /\ key \in DOMAIN dbOrders \/ "db" \in Faults
    /\ UNCHANGED dbOrders

\* Wrong on purpose: update_order overwrites whatever it finds.
UpdateAnything(key, status) == TRUE

\* update_order refuses to move a terminal row to another status.
UpdateAllowed(key, status) ==
    dbOrders[key].status \in TerminalStatuses => status = dbOrders[key].status

UpdateOrder(key, status) ==
    /\ UpdateAllowed(key, status)
    /\ dbOrders' = [dbOrders EXCEPT ![key].status = status]

EntryRows == {k \in DOMAIN dbOrders : k[2] = "ENTRY"}
EntriesToday == Cardinality(EntryRows)

\* The purpose filter of the emergency stop is part of what it asks for.
\* Wrong on purpose: every unresolved order, stops and exits too.
UnresolvedOrders == {k \in DOMAIN dbOrders : dbOrders[k].status \in NonTerminalStatuses}

UnresolvedEntries == {k \in EntryRows : dbOrders[k].status \in NonTerminalStatuses}

\* Wrong on purpose: the sale is booked and the position row stays.
RecordSaleOnly(qty) ==
    /\ tradedQty' = tradedQty + qty
    /\ UNCHANGED dbPosition

\* insert_trade followed by delete_position.
RecordSale(qty) ==
    /\ tradedQty' = tradedQty + qty
    /\ dbPosition' = NoPosition

=============================================================================
