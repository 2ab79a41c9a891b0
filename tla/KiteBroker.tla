----------------------------- MODULE KiteBroker -----------------------------
(***************************************************************************)
(* trading/kite_broker.py.  Each operator is one API call of the adapter   *)
(* with what it does to the exchange, to the cache of order states and to  *)
(* the broker's own halt flag.  The blocking poll is one step that waits   *)
(* for the exchange or times out.  Whose thread makes the call, and what   *)
(* it does next, is the caller's business (module LiveTrading).            *)
(***************************************************************************)
EXTENDS Exchange

VARIABLES
    brokerHalted,   \* KiteBroker.halted
    orderInfo       \* KiteBroker.order_info: the last polled state of an order

kiteVars == <<brokerHalted, orderInfo>>

KiteInit == /\ brokerHalted = FALSE
            /\ orderInfo = << >>

PendingNames == {"PUT ORDER REQUEST RECEIVED", "VALIDATION PENDING", "OPEN PENDING",
                 "MODIFY VALIDATION PENDING", "MODIFY PENDING", "CANCEL PENDING",
                 "AMO REQ RECEIVED"}

StatusMap ==
    [ raw \in TerminalStatuses \cup {"OPEN", "TRIGGER PENDING"} \cup PendingNames |->
        CASE raw = "TRIGGER PENDING" -> "TRIGGER_PENDING"
          [] raw \in PendingNames   -> "PENDING"
          [] OTHER                  -> raw ]

MapKiteStatus(raw) == IF raw \in DOMAIN StatusMap THEN StatusMap[raw] ELSE "UNKNOWN"

Remember(i, status, filled) ==
    orderInfo' = [j \in DOMAIN orderInfo \cup {i} |->
                     IF j = i THEN [status |-> status, filled |-> filled]
                              ELSE orderInfo[j]]

\* Wrong on purpose: the adapter forgets to look at its halt flag.
PlaceThoughHalted(o) ==
    /\ Accept(o)
    /\ UNCHANGED kiteVars

\* place_order returned an id: the caller goes on to poll it.
PlaceAccepted(o) ==
    /\ ~brokerHalted
    /\ Accept(o)
    /\ UNCHANGED kiteVars

\* place_order raised BrokerError.  Only a lost session halts the broker; an
\* exception of any other class is reported as a refusal although the order
\* may be on the book.
PlaceRefused(o) ==
    \/ /\ brokerHalted \/ "refused" \in Faults
       /\ UNCHANGED <<exchangeVars, kiteVars>>
    \/ /\ ~brokerHalted
       /\ "disconnected" \in Faults
       /\ brokerHalted' = TRUE
       /\ UNCHANGED <<exchangeVars, orderInfo>>
    \/ /\ ~brokerHalted
       /\ "unexpected" \in Faults
       /\ Accept(o)
       /\ UNCHANGED kiteVars

\* kite.place_order raised NetworkException: the order arrived or it did not.
PlaceUnanswered(o) ==
    /\ ~brokerHalted
    /\ "network" \in Faults
    /\ Accept(o) \/ UNCHANGED exchangeVars
    /\ UNCHANGED kiteVars

\* Wrong on purpose: the newest order of the book, whatever its tag.
NewestOrder(tag, i) == i \in DOMAIN book /\ i = Len(book)

FirstWithTag(tag, i) ==
    /\ i \in DOMAIN book
    /\ book[i].tag = tag
    /\ \A j \in DOMAIN book : book[j].tag = tag => i <= j

\* _lookup_order_by_tag found an order: place_order takes its id for the one
\* it was placing.
LookupFinds(tag, i) ==
    /\ FirstWithTag(tag, i)
    /\ UNCHANGED <<exchangeVars, kiteVars>>

\* No order with the tag, or orders() failed: halt and raise NetworkException.
LookupFails(tag) ==
    /\ \/ "lookup" \in Faults
       \/ \A j \in DOMAIN book : book[j].tag # tag
    /\ brokerHalted' = TRUE
    /\ UNCHANGED <<exchangeVars, orderInfo>>

\* Wrong on purpose: a resting stop is polled until it is terminal.
PollUntilTerminal(i) ==
    /\ MapKiteStatus(book[i].status) \in TerminalStatuses
    /\ Remember(i, MapKiteStatus(book[i].status), book[i].filled)
    /\ UNCHANGED <<exchangeVars, brokerHalted>>

\* _poll_order returns when the order is terminal, or rests as a stop.
PollSettles(i) ==
    /\ MapKiteStatus(book[i].status) \in TerminalStatuses \cup {"TRIGGER_PENDING"}
    /\ Remember(i, MapKiteStatus(book[i].status), book[i].filled)
    /\ UNCHANGED <<exchangeVars, brokerHalted>>

\* _poll_order ran out of time in an interim state, or history() kept failing.
PollTimesOut(i) ==
    /\ "interim" \in Faults
    /\ Remember(i, "UNKNOWN", 0)
    /\ brokerHalted' = TRUE
    /\ UNCHANGED exchangeVars

Poll(i) == PollSettles(i) \/ PollTimesOut(i)

\* kite.cancel_order, whose failure is only logged.  The poll that follows in
\* cancel_order is the caller's next step.
RequestCancel(i) ==
    /\ \/ Working(i) /\ Settle(i, "CANCELLED", 0)
       \/ ("cancel" \in Faults \/ ~Working(i)) /\ UNCHANGED exchangeVars
    /\ UNCHANGED kiteVars

\* get_positions: long positions only, with no stop order id, and the empty
\* list when the API fails.
NoPosition == [qty |-> 0, stop |-> NoOrder]

\* Wrong on purpose: a short position passes the qty > 0 filter.
ShortPositionsToo == {[qty |-> net, stop |-> NoOrder]}

BrokerPositions ==
    {IF net > 0 THEN [qty |-> net, stop |-> NoOrder] ELSE NoPosition}
        \cup (IF "positions" \in Faults THEN {NoPosition} ELSE {})

=============================================================================
