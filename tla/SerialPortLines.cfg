SPECIFICATION FairSpec
CONSTANTS
  AnswerLen = 3
  WireSize = 1
  QueueSize = 3
  MaxCommands = 4
  MaxFailures = 2
INVARIANT OneAnswerPerLine
CHECK_DEADLOCK FALSE
