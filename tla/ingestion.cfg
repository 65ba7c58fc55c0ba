SPECIFICATION FairSpec
CONSTANTS
  MaxId = 3
  Delayed = {3}
  Rescanned = {3}
  Workers = {w1, w2}
  Survivor = w1
  Backfill = backfill
  PageLimit = 1
  InsertLimit = 1
INVARIANTS  CursorCovers CountedOnce
PROPERTIES EveryOneArrives
