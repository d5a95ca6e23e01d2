SPECIFICATION FairSpec
CONSTANTS
  AnswerLen = 3
  WireSize = 1
  QueueSize = 2
  MaxCommands = 4
  MaxFailures = 2
INVARIANTS
  AnswersInOrder
  DamageIsLocal
PROPERTIES
  EveryAnswerArrives
  ReactorReturns
CHECK_DEADLOCK FALSE
