SPECIFICATION CarefulSpec
CONSTANTS
  Pid = {1, 2}
  UidOf <- MCUidOf
  NR_syscalls = 3
  NR_exit_group = 2
  Command = {"INTERCEPT", "RELEASE", "START", "STOP"}
  Target = {1, 3}
  MaxInFlight = 1
  MaxListcount = 1
  MaxLoads = 2
INVARIANTS
  UnloadRestores
  CaughtGoOn
  ListsFreed
  LoadedAsAssumed
PROPERTY
  NobodyEnters
