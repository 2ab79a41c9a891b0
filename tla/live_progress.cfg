SPECIFICATION FairSpec
CONSTANTS
  MaxCandle = 4
  LotQty = 1
  Faults = {"rejected","db","unexpected"}
  MaxTrades = 2
  EntryWindow = {2, 3}
  SquareOffAt = 4
  HasReconciler = FALSE
  UiHasBroker = TRUE
  Alerts = {}
  MaxStops = 1
  BuysOn = {1, 2}
  SellsOn = {2}
CHECK_DEADLOCK FALSE
PROPERTIES TerminalRowsFinal OnlyExitsCancelStops StopResolvesEntries StopLeavesNoneOut CandleFinishes SquareOffClears
