SPECIFICATION Spec
CONSTANTS
  MaxCandle = 5
  LotQty = 2
  Faults = {"network","lookup","interim","partial"}
  MaxTrades = 2
  EntryWindow = {2, 4, 5}
  SquareOffAt = 6
  HasReconciler = FALSE
  UiHasBroker = TRUE
  Alerts = {}
  MaxStops = 0
  BuysOn = {1, 2, 3, 4, 5}
  SellsOn = {1, 2, 3, 4, 5}
CHECK_DEADLOCK FALSE
INVARIANTS TypeOK OneLot OneEntryPerSignal StopsMatchFills EntryRowsNameTheirOrder UnprotectedHalts
PROPERTIES LossLatchFinal
