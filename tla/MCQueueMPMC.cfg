\* Two producers pushing once each, one consumer popping twice, one
\* observer calling peek, empty or length once.
CONSTANTS
  Producers = {p1, p2}
  Consumers = {c1}
  Capacity = 2
  GenMod = 65536
  PushesPer = 1
  PopsPer = 2
  Observers = {o1}
  ObsPer = 1
SPECIFICATION Spec
INVARIANTS
  NodesAccounted
  EmptyFalseSound
  EmptyTrueExplained
PROPERTY RefinesQueue
