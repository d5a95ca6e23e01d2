CONSTANTS
  QueueSize = 3
  MaxLines = 4
SPECIFICATION FairSpec
PROPERTIES
  BackToReading
CHECK_DEADLOCK FALSE
