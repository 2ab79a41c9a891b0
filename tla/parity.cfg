SPECIFICATION ParitySpec
CONSTANTS
  Prices = {20000, 40000, 60000}
  Days = 2
  DayLength = 4
  EntrySlots = {2, 3}
  SquareOffSlot = 4
  SlippagePct = 1
  StopPct = 25
  EnableTarget = TRUE
  TargetPct = 40
  Capital = 250000
  RiskPct = 5
  MaxQuantity = 2
  MaxTrades = 2
  MaxDailyLoss = 15000
  Charges = 0
CHECK_DEADLOCK FALSE
INVARIANTS SameUntilApart RowTellsPosition NeverBetterThanMarket
PROPERTIES BacktestKeepsRules PaperKeepsRules
