SPECIFICATION FairSpec
CONSTANTS
  Dir = {0}
  Entry = {0, 1}
  MemSize = 1
  SwapSize = 2
  Type = {"L", "S"}
  MaxRefs = 4
CHECK_DEADLOCK FALSE
PROPERTY SwapIsReadBack
