SPECIFICATION Spec
CONSTANTS
  MaxCandle = 4
  LotQty = 1
  Faults = {}
  MaxTrades = 1
  EntryWindow = {2, 3}
  SquareOffAt = 4
  HasReconciler = FALSE
  UiHasBroker = TRUE
  Alerts = {}
  MaxStops = 0
  BuysOn = {1, 2, 3, 4}
  SellsOn = {1, 2, 3, 4}
CHECK_DEADLOCK FALSE
INVARIANTS NeverShort
