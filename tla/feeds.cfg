SPECIFICATION Spec
CONSTANTS
  FastPeriod = 1
  SlowPeriod = 3
  Warmup = 4
  Timeframe = 2
  Prices = {128, 192, 320}
  MaxMinute = 5
  MaxTicks = 4
  MaxReplayed = 7
  MaxClock = 5
  StaleThreshold = 2
CHECK_DEADLOCK FALSE
INVARIANTS CandlesInOrder VolumeConserved CandlesSumUpTheirTicks LiveSignalsAreBacktestSignals SignalsAlternate
PROPERTIES NothingStaleDelivered
