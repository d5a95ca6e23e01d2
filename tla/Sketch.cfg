CONSTANTS
  LastPid = 3
  MaxCommands = 2
SPECIFICATION FairSpec
INVARIANTS
  OneAnswerEach
  AnswerTellsTheTruth
  AnswersAreJson
PROPERTIES
  HandlerEnds
CHECK_DEADLOCK FALSE
