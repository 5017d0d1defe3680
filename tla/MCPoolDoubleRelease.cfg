\* Two threads may pass the same handle to anam_release concurrently.
CONSTANTS
  Threads = {t1, t2}
  SlotCount = 1
  GenMod = 65536
  MaxOps = 3
  SharedRelease = TRUE
SPECIFICATION Spec
INVARIANT OwnershipExclusive
