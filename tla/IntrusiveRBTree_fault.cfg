\* Five keys, any of them removed.
SPECIFICATION Spec
CONSTANTS
  Keys = {1, 2, 3, 4, 5}
  Removable = {1, 2, 3, 4, 5}
  NULL = NULL
INVARIANTS NoNullSibling
CHECK_DEADLOCK FALSE
