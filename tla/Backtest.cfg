SPECIFICATION Spec
CONSTANTS
  FastPeriod = 1
  SlowPeriod = 2
  Threshold = 0
  Mids <- MCMids
  Runs <- MCRuns
  Prices = {10, 13, 18}
  MaxPrice = 20
  Flow <- MCFlow
  RecordedIds = {1, 2}
  OwnIdBase = 3
  max_position = 1
  order_size = 2
  Cost <- MCCost
  None = None
INVARIANTS TypeOK PositionLimit EquityIsMarked DrawdownOfTheCurve
PROPERTIES AveragesFollow OnlyOwnAreCancelled OwnOrderTrades
