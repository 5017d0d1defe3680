\* Pool and queue configurations, valid and invalid, over small sizes, and
\* those the C++ wrappers make for char, int, double, small structs and a
\* 64-byte aligned type.
SPECIFICATION Spec
CONSTANTS
  SlotSizes <- MCSlotSizes
  SlotCounts = {0, 1, 2, 3}
  Alignments = {0, 4, 8, 12, 16, 32}
  ItemSizes <- MCItemSizes
  Capacities = {0, 1, 2}
  CppTypes <- MCCppTypes
  Pages = {1, 3}
  WordBits = 10
  STRICT_VALIDATION = TRUE
  Generations = {0, 1, 65535}
INVARIANTS
  AlignUpExact
  SlotsWellPlaced
  InPoolExact
  HandleFaithful
CHECK_DEADLOCK FALSE
