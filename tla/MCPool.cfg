\* Safety, refinement of PoolAbstract and completion of every operation:
\* three threads, two slots, two operations each.
CONSTANTS
  Threads = {t1, t2, t3}
  SlotCount = 2
  GenMod = 65536
  MaxOps = 2
  SharedRelease = FALSE
SPECIFICATION Spec
INVARIANTS
  TypeOK
  OwnershipExclusive
  FreeListGenerations
  CounterfeitExposed
  Conservation
  ForeachExact
PROPERTIES
  RefinesAbstract
  OpsComplete
