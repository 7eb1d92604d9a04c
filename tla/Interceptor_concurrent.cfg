SPECIFICATION Spec
CONSTANTS
  Pid = {1, 2}
  UidOf <- MCUidOf
  NR_syscalls = 3
  NR_exit_group = 2
  Command = {"INTERCEPT", "RELEASE", "START", "STOP"}
  Target = {1}
  MaxInFlight = 2
  MaxListcount = 2
INVARIANTS
  TypeOK
  LockDiscipline
  HookIntegrity
  FlagFollowsHook
  ListedIsCounted
PROPERTIES
  OwnersOnly
