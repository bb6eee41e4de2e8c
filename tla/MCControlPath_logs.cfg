CONSTANTS
  c1 = c1
  Clients <- OneClient
  RequestCap = 2
  LogCap = 1
  CommandCap = 1
  MaxMessages = 1
  MaxBreaks = 1
SPECIFICATION FairSpec
PROPERTIES ResubscribedAlways
CHECK_DEADLOCK FALSE
