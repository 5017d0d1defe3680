\* slots_free observed between the Treiber push of a release and its
\* counter update.
CONSTANTS
  Threads = {t1, t2}
  SlotCount = 1
  GenMod = 65536
  MaxOps = 3
  SharedRelease = FALSE
SPECIFICATION Spec
INVARIANT SlotsFreeInRange
