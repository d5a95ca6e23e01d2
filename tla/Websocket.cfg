CONSTANTS
  Client = {c1, c2}
  MaxLines = 4
  MaxReplies = 2
  NonAscii = {2}
SPECIFICATION FairSpec
PROPERTIES
  EveryCallRuns
CHECK_DEADLOCK FALSE
