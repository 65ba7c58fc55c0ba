SPECIFICATION FairSpec
CONSTANTS
  OriginalPuts = {o1, o2}
  ResultPuts = {r1}
  Sweeps = {s1, s2}
  PutTtl = 1
  PurgeLease = 1
  MaxPurges = 2
  NoPut = none
INVARIANTS RecordedStaysDeleted
PROPERTIES PurgeIsRetried
