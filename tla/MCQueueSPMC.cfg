\* One producer, two consumers.
CONSTANTS
  Producers = {p1}
  Consumers = {c1, c2}
  Capacity = 2
  GenMod = 65536
  PushesPer = 3
  PopsPer = 2
  Observers = {}
  ObsPer = 0
SPECIFICATION Spec
INVARIANTS
  HeadTailValid
  NodesAccounted
  LengthAccounted
PROPERTIES
  RefinesQueue
  OpsComplete
