\* One more key than buckets, four of them in one chain; only key 4, which no chain
\* goes past, is ever removed.
SPECIFICATION Spec
CONSTANTS
  Keys = {1, 2, 3, 4, 5}
  Values = {v1, v2}
  Capacity = 4
  Hash <- ChainHash
  Removable = {4}
  Vacant = Vacant
  NULL = NULL
INVARIANTS TypeOK EveryEntryFound
PROPERTIES ImplementsDictionary
