------------------------------- MODULE Orders -------------------------------
(***************************************************************************)
(* The vocabulary shared by every component: order statuses and their      *)
(* legal transitions (models.py), purposes, and the deterministic signal   *)
(* ids that tie an order to the candle which caused it.                    *)
(***************************************************************************)
EXTENDS Integers

CONSTANTS
    MaxCandle,   \* bound: candles of one trading day, numbered 1..MaxCandle
    LotQty       \* TradingConfig.max_quantity, the size of an allowed entry

ASSUME SizesAssumption == /\ MaxCandle \in Nat \ {0}
                          /\ LotQty \in Nat \ {0}

Candles == 1..MaxCandle

OrderPurpose == {"ENTRY", "EXIT", "STOP_LOSS"}

TerminalStatuses == {"COMPLETE", "REJECTED", "CANCELLED", "LAPSED"}
NonTerminalStatuses ==
    {"CREATED", "SUBMITTED", "PENDING", "OPEN", "TRIGGER_PENDING", "UNKNOWN"}
OrderStatus == TerminalStatuses \cup NonTerminalStatuses

\* Wrong on purpose: nobody thought of cancelling an order just submitted.
TransitionsWithoutCancel ==
    [ CREATED         |-> {"SUBMITTED", "REJECTED"},
      SUBMITTED       |-> {"PENDING", "OPEN", "TRIGGER_PENDING", "COMPLETE", "REJECTED"},
      PENDING         |-> {"OPEN", "TRIGGER_PENDING", "REJECTED", "CANCELLED", "LAPSED"},
      OPEN            |-> TerminalStatuses,
      TRIGGER_PENDING |-> {"OPEN", "COMPLETE", "CANCELLED", "LAPSED"} ]

LegalOrderTransitions ==
    [ CREATED         |-> {"SUBMITTED", "REJECTED"},
      SUBMITTED       |-> {"PENDING", "OPEN", "TRIGGER_PENDING"} \cup TerminalStatuses,
      PENDING         |-> {"OPEN", "TRIGGER_PENDING", "REJECTED", "CANCELLED", "LAPSED"},
      OPEN            |-> TerminalStatuses,
      TRIGGER_PENDING |-> {"OPEN", "COMPLETE", "CANCELLED", "LAPSED"} ]

\* Order.transition_to: terminal orders only repeat themselves, UNKNOWN may
\* become anything, the rest follow the table.
CanTransition(from, to) ==
    \/ from \in TerminalStatuses /\ to = from
    \/ from = "UNKNOWN"
    \/ from \in DOMAIN LegalOrderTransitions /\ to \in LegalOrderTransitions[from]

\* A signal id is a hash of (mode, symbol, timeframe, candle, signal); within
\* one engine only the signal and the candle vary.  Square-off orders carry
\* SQ_<time of the candle> instead.
SignalIds == {"BUY", "SELL", "SQ"} \X Candles
NoSignal  == <<"NONE", 0>>

=============================================================================
