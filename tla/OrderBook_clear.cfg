\* The book is cleared while orders rest; some orders have no quantity.
SPECIFICATION Spec
CONSTANTS
  Ids = {1, 2, 3}
  Prices = {10, 11}
  Quantities = {0, 1, 2}
  INVALID_PRICE = 0
  QuantityRange = 4
  MaxOrders = 2
  MaxLevels = 2
  MapSize = 4
  Hash <- SpreadHash
  MaxClears = 1
  Vacant = Vacant
  NULL = NULL
PROPERTIES ImplementsLimitOrderBook
