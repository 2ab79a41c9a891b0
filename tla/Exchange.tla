------------------------------ MODULE Exchange ------------------------------
(***************************************************************************)
(* EXTERNAL.  The exchange behind the Kite Connect API, as far as          *)
(* kite_broker.py can tell: an order book in placement order, raw order    *)
(* statuses, and the account's net position.  An order's id is its place   *)
(* in the book.                                                            *)
(***************************************************************************)
EXTENDS Orders, Sequences

CONSTANT Faults   \* the failures this instance may meet, a subset of FaultKinds

FaultKinds ==
    { "rejected",      \* the exchange rejects an order it was handed
      "partial",       \* a market order ends with part of its quantity
      "refused",       \* the API refuses an order (Input/PermissionException)
      "disconnected",  \* TokenException, or the unregistered-IP refusal
      "network",       \* NetworkException while placing; the order may have arrived
      "lookup",        \* the order book cannot be read to resolve that
      "unexpected",    \* any other exception, after the order was taken
      "interim",       \* polling ends in an interim state (the 30 s timeout)
      "cancel",        \* a cancel request fails
      "positions",     \* positions() fails
      "db" }           \* an INSERT fails

ASSUME FaultsAssumption == Faults \subseteq FaultKinds

VARIABLES
    book,   \* the account's orders, in the order they were taken
    net     \* shares held: bought minus sold

exchangeVars == <<book, net>>

NoOrder == 0

NewOrder(tag, purpose, qty) ==
    [ tag    |-> tag,
      side   |-> IF purpose = "ENTRY" THEN "BUY" ELSE "SELL",
      status |-> IF purpose = "STOP_LOSS" THEN "TRIGGER PENDING" ELSE "OPEN",
      stop   |-> purpose = "STOP_LOSS",
      qty    |-> qty,
      filled |-> 0 ]

Working(i) == book[i].status \in {"OPEN", "TRIGGER PENDING"}

Accept(o) ==
    /\ \/ book' = Append(book, o)
       \/ /\ "rejected" \in Faults
          /\ book' = Append(book, [o EXCEPT !.status = "REJECTED"])
    /\ UNCHANGED net

Settle(i, status, filled) ==
    /\ book' = [book EXCEPT ![i].status = status, ![i].filled = filled]
    /\ net' = IF book[i].side = "BUY" THEN net + filled ELSE net - filled

Fill(i) ==
    /\ book[i].status = "OPEN"
    /\ Settle(i, "COMPLETE", book[i].qty)

\* The rest of a market order is cancelled, or the order is reported COMPLETE
\* with less than its quantity (the case signal_engine.py:257 provides for).
FillPart(i) ==
    /\ "partial" \in Faults
    /\ book[i].status = "OPEN"
    /\ \E f \in 0..(book[i].qty - 1) :
           \/ Settle(i, "CANCELLED", f)
           \/ f > 0 /\ Settle(i, "COMPLETE", f)

\* The price falls to a resting stop, which fills in full.
Trigger(i) ==
    /\ book[i].status = "TRIGGER PENDING"
    /\ Settle(i, "COMPLETE", book[i].qty)

ExchangeStep == \E i \in DOMAIN book : Fill(i) \/ FillPart(i) \/ Trigger(i)

=============================================================================
