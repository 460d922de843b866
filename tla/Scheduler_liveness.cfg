SPECIFICATION FairSpec
CONSTANTS
  MaxTasks = 3
  MainForks = 1
  Priorities = {0, 1}
  Quanta = {1}
  IoCounts = {1}
  Devices = {0}
  UINT_MAX = 3
PROPERTIES NoStarvation PostedTaskRuns EndTerminates
CHECK_DEADLOCK FALSE
