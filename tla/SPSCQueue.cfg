\* A ring of four slots, of which three hold items: the smallest in which both
\* indices wrap while the queue is neither empty nor full.
SPECIFICATION FairSpec
CONSTANTS
  Capacity = 4
  BatchSize = 3
  MaxItems = 9
INVARIANTS TypeOK NoDataRace InOrderOnce
PROPERTIES SizeIsAPromise ImplementsFIFO EveryItemDelivered
