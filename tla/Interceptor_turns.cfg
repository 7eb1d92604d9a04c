SPECIFICATION FairSpec
CONSTANTS
  Pid = {1, 2}
  UidOf <- MCUidOf
  NR_syscalls = 3
  NR_exit_group = 2
  Command = {"INTERCEPT", "RELEASE", "START", "STOP", "unknown"}
  Target = {0, 2}
  MaxInFlight = 1
  MaxListcount = 2
PROPERTIES
  ImplementsMonitor
  AcksAreTrue
  CallReturns
