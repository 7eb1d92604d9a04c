SPECIFICATION LifecycleSpec
CONSTANTS
  Pid = {1}
  UidOf <- MCUidOf
  NR_syscalls = 3
  NR_exit_group = 2
  Command = {"INTERCEPT"}
  Target = {1, 2}
  MaxInFlight = 1
  MaxListcount = 0
  MaxLoads = 1
CHECK_DEADLOCK FALSE
INVARIANT ExitGroupRestored
