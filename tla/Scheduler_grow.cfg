SPECIFICATION Spec
CONSTANTS
  MaxTasks = 4
  MainForks = 1
  Priorities = {0}
  Quanta = {1}
  IoCounts = {1}
  Devices = {0}
  UINT_MAX = 7
INVARIANTS EntriesAllocated
PROPERTIES TeardownQuiescent SignalWakesAll
CHECK_DEADLOCK FALSE
