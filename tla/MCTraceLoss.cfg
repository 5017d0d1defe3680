\* An eight-entry ring whose flushes may fail.
CONSTANTS
  Threads = {t1}
  Capacity = 8
  MaxRecords = 12
  FlushFails = TRUE
  MaxCalls = 3
SPECIFICATION Spec
INVARIANT OnlyOldestLost
CHECK_DEADLOCK FALSE
