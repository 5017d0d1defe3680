\* Two producers pushing twice each: a pusher links onto a recycled node.
CONSTANTS
  Producers = {p1, p2}
  Consumers = {c1}
  Capacity = 2
  GenMod = 65536
  PushesPer = 2
  PopsPer = 2
  Observers = {}
  ObsPer = 0
SPECIFICATION Spec
INVARIANT NodesAccounted
