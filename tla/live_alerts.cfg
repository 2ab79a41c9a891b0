SPECIFICATION Spec
CONSTANTS
  MaxCandle = 5
  LotQty = 1
  Faults = {"refused","disconnected","cancel","positions"}
  MaxTrades = 1
  EntryWindow = {2, 3, 4}
  SquareOffAt = 5
  HasReconciler = TRUE
  UiHasBroker = TRUE
  Alerts = {"network","stale"}
  MaxStops = 0
  BuysOn = {1, 2, 3, 4, 5}
  SellsOn = {1, 2, 3, 4, 5}
CHECK_DEADLOCK FALSE

INVARIANTS OpenPositionProtected BookedSalesHappened TradesCapped
PROPERTIES HaltEndsEntries
