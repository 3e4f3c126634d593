\* What clear() leaves in the pools.
SPECIFICATION Spec
CONSTANTS
  Ids = {1}
  Prices = {10}
  Quantities = {1}
  INVALID_PRICE = 0
  QuantityRange = 4
  MaxOrders = 1
  MaxLevels = 1
  MapSize = 4
  Hash <- SpreadHash
  MaxClears = 1
  Vacant = Vacant
  NULL = NULL
INVARIANTS NothingLeaks
