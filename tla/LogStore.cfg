CONSTANTS
  Name = {n1, n2}
  None = None
  Ids <- MCIds
  MaxLines = 3
  MaxStarts = 3
SPECIFICATION Spec
INVARIANTS
  DiskIsPrefix
  CleanStopKeepsEverything
  FreshIdsAreRight
PROPERTIES
  OthersUntouched
CHECK_DEADLOCK FALSE
