SPECIFICATION SimSpec
CONSTANTS
  Dir = {0}
  Entry = {e1, e2, e3, e4, e5}
  MemSize = 3
  SwapSize = 3
  Type = {"L"}
  MaxRefs = 7
  Traces <- MCTraces
CHECK_DEADLOCK FALSE
SYMMETRY MCSymmetry
INVARIANTS
  ListIsRecency
  MissesLeast
PROPERTIES
  EvictsOldest
  SecondChance
  EvictsLeastRecent
  EvictsFarthest
  AnyPolicy
