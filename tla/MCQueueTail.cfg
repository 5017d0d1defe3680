\* Two producers pushing once each: the tail swing after the link.
CONSTANTS
  Producers = {p1, p2}
  Consumers = {c1}
  Capacity = 2
  GenMod = 65536
  PushesPer = 1
  PopsPer = 2
  Observers = {}
  ObsPer = 0
SPECIFICATION Spec
INVARIANT
  HeadTailValid
