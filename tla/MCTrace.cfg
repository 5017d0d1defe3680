\* Two threads with eight-entry rings whose flushes may fail, and nine
\* records each, so that the 75% flush, a wrapped flush, head lapping tail
\* after a failed fopen, and records after another thread's shutdown happen.
CONSTANTS
  Threads = {t1, t2}
  Capacity = 8
  MaxRecords = 9
  FlushFails = TRUE
  MaxCalls = 1
SPECIFICATION Spec
INVARIANTS
  TraceIntact
  FileOrdered
PROPERTY TraceDrained
