\* Fewer level objects than levels, lists of up to four orders.
SPECIFICATION Spec
CONSTANTS
  PoolSize = 4
  Levels = {l1, l2, l3}
  MaxLevels = 2
  NULL = NULL
INVARIANTS TypeOK SlotsPartitioned ListsThreaded CursorAtHead
PROPERTIES ImplementsLevelQueues
