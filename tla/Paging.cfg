SPECIFICATION Spec
CONSTANTS
  d1 = d1
  d2 = d2
  e1 = e1
  e2 = e2
  Dir = {d1, d2}
  Entry = {e1, e2}
  MemSize = 2
  SwapSize = 2
  Type = {"L", "S"}
  MaxRefs = 6
CHECK_DEADLOCK FALSE
SYMMETRY MCSymmetry
INVARIANTS
  TypeOK
  FrameOwnership
  SlotsPrivate
  AddressChecks
  ExitsWhenSwapIsFull
PROPERTIES
  EvictionSaves
  ImplementsDemandPaging
