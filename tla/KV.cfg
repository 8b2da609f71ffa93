SPECIFICATION FairSpec
CONSTANTS
  Keys = {k1, k2}
  k1 = k1
  k2 = k2
  Calls = {c1, c2}
  BulkKeys <- MCBulkKeys
  Concurrency = 1
  Sizes = {1, 2, 3}
  Capacity = 2
INVARIANTS
  CacheAccounted
  StaleOnlyByOverlap
  BulkComplete
PROPERTY
  CallsEnd
CHECK_DEADLOCK FALSE
