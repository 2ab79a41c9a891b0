SPECIFICATION RecoverySpec
CONSTANTS
  MaxCandle = 3
  LotQty = 1
  Faults = {"network","db"}
  MaxTrades = 1
  EntryWindow = {2, 3}
  SquareOffAt = 4
  HasReconciler = TRUE
  UiHasBroker = TRUE
  Alerts = {}
  MaxStops = 1
  BuysOn = {1, 2, 3}
  SellsOn = {1, 2, 3}
  MaxCrashes = 1
  MaxFlattens = 2
CHECK_DEADLOCK FALSE
INVARIANTS OneLot KillSwitchHolds UnprotectedStaysBlocked FlattensOnce

