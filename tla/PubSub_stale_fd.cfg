SPECIFICATION Spec
CONSTANTS
  a = a
  b = b
  Anonymous = Anonymous
  Ids <- MCIds
  Topics = {x}
  StoreFlags = {TRUE}
  ExitTopics = {}
  MayExit = FALSE
  MaxConns = 3
  MaxFds = 2
  MaxMsgs = 2
  MaxCommands = 2
INVARIANTS OnlySubscribersGet
CHECK_DEADLOCK FALSE
