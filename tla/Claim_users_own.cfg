SPECIFICATION Spec
CONSTANTS
  Pid = {1, 2}
  UidOf <- MCUidOf
  NR_syscalls = 3
  NR_exit_group = 2
  Command = {"INTERCEPT", "START"}
  Target = {1}
  MaxInFlight = 2
  MaxListcount = 0
PROPERTY UsersTouchOwn
