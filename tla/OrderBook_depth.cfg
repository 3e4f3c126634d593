\* Two bid levels.
SPECIFICATION Spec
CONSTANTS
  Ids = {1, 2}
  Prices = {10, 11}
  Quantities = {1}
  INVALID_PRICE = 0
  QuantityRange = 4
  MaxOrders = 2
  MaxLevels = 2
  MapSize = 4
  Hash <- SpreadHash
  MaxClears = 0
  Vacant = Vacant
  NULL = NULL
INVARIANTS BidDepth
