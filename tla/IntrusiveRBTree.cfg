\* Six keys, any of them removed.  A call that dereferences a null pointer stops.
SPECIFICATION FairSpec
CONSTANTS
  Keys = {1, 2, 3, 4, 5, 6}
  Removable = {1, 2, 3, 4, 5, 6}
  NULL = NULL
INVARIANTS TypeOK WalksInOrder NoRedPair RedBlackUnlessSkipped
PROPERTIES ImplementsOrderedSet CallReturns
CHECK_DEADLOCK FALSE
