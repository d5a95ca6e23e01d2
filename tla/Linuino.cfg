CONSTANTS
  QueueSize = 4
  MaxLines = 5
  Client = {c1, c2}
  MaxReplies = 1
  NonAscii = {2}
SPECIFICATION FairSpec
INVARIANTS
  HandedIsEndOfLog
  EveryClientSeesTheFeed
PROPERTIES
  ComponentsSpec
  NoObserverSkipped
  BroadcastReachesTheOpen
  EachLives
  RelaySpec
  LinesReachClients
CHECK_DEADLOCK FALSE
