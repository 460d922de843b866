SPECIFICATION Spec
CONSTANTS
  MaxTasks = 3
  MainForks = 1
  Priorities <- MCPriorities
  Quanta <- MCQuanta
  IoCounts <- MCIoCounts
  Devices <- MCDevices
  UINT_MAX = 7
INVARIANTS NoStaleAddress
CHECK_DEADLOCK FALSE
