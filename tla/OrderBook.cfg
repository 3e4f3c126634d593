\* Three orders on three prices, with fewer level objects than prices: queues of
\* three, sweeps of levels, modify, level_pool_ exhausted, and a level quantity that
\* wraps around (three orders of 2 in a range of 4).
SPECIFICATION Spec
CONSTANTS
  Ids = {1, 2, 3}
  Prices = {10, 11, 12}
  Quantities = {1, 2}
  INVALID_PRICE = 0
  QuantityRange = 4
  MaxOrders = 3
  MaxLevels = 2
  MapSize = 4
  Hash <- SpreadHash
  MaxClears = 0
  Vacant = Vacant
  NULL = NULL
INVARIANTS TypeOK NoSlotInTwoPlaces LevelsAddUp MapAgrees NeverCrossed
INVARIANTS NothingLeaks ModifyReadmits AskDepth
PROPERTIES NoPartialDrop ImplementsLimitOrderBook ImplementsLevelQueues
