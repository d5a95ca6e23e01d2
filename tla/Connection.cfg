SPECIFICATION FairSpec
CONSTANTS
  MaxUnits = 4
  MaxFeed = 2
INVARIANTS
  ClosedOnce
  FramesOnlyWhileOpen
PROPERTIES
  LifeSpec
  HandshakeEnds
  ClosedIsLost
CHECK_DEADLOCK FALSE
