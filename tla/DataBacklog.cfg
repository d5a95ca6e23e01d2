CONSTANTS
  QueueSize = 3
  MaxLines = 4
SPECIFICATION FairSpec
PROPERTY EveryLineHandled
CHECK_DEADLOCK FALSE
