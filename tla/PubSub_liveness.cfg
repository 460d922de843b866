SPECIFICATION FairSpec
CONSTANTS
  a = a
  b = b
  Anonymous = Anonymous
  Ids <- MCIds
  Topics = {x, y}
  StoreFlags = {FALSE, TRUE}
  ExitTopics = {y}
  MayExit = TRUE
  MaxConns = 2
  MaxFds = 2
  MaxMsgs = 1
  MaxCommands = 1
PROPERTIES LoginServed ExitReachesAll
CHECK_DEADLOCK FALSE
