\* A four-entry ring, every fopen succeeding.
CONSTANTS
  Threads = {t1}
  Capacity = 4
  MaxRecords = 6
  FlushFails = FALSE
  MaxCalls = 3
SPECIFICATION Spec
INVARIANT TraceIntact
CHECK_DEADLOCK FALSE
