CONSTANTS
  c1 = c1
  Clients <- OneClient
  RequestCap = 2
  LogCap = 1
  CommandCap = 1
  MaxMessages = 3
  MaxBreaks = 2
SPECIFICATION FairSpec
INVARIANT PipelineSound
PROPERTIES CommandsInOrder ReceivedExecuted HttpAnswered Resubscribed
CHECK_DEADLOCK FALSE
