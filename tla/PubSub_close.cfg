SPECIFICATION Spec
CONSTANTS
  a = a
  b = b
  Anonymous = Anonymous
  Ids <- MCIds
  Topics = {x}
  StoreFlags = {TRUE}
  ExitTopics = {}
  MayExit = FALSE
  MaxConns = 3
  MaxFds = 3
  MaxMsgs = 2
  MaxCommands = 2
INVARIANTS ClosingIsHarmless
CHECK_DEADLOCK FALSE
