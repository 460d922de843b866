SPECIFICATION FairSpec
CONSTANTS
  MaxTasks = 2
  MainForks = 2
  Priorities = {0}
  Quanta = {1}
  IoCounts = {1}
  Devices = {0}
  UINT_MAX = 3
PROPERTIES NoStarvation
CHECK_DEADLOCK FALSE
