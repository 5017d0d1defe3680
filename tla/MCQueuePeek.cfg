\* One producer pushing three items, one consumer popping twice, one
\* observer calling peek, empty or length once.
CONSTANTS
  Producers = {p1}
  Consumers = {c1}
  Capacity = 2
  GenMod = 65536
  PushesPer = 3
  PopsPer = 2
  Observers = {o1}
  ObsPer = 1
SPECIFICATION Spec
INVARIANT PeekIntact
