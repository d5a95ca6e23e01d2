SPECIFICATION FairSpec
CONSTANTS
  Thread = {t1, t2}
  Timer = {c1, c2}
  PipeSize = 2
  ReadSize = 1
  Longest = 1
  MaxCancelled = 0
  MaxCalls = 2
  MaxEvents = 1
  MaxTime = 2
INVARIANTS
  NoLostWakeup
  NoOversleep
PROPERTIES
  TimelyOrNotAtAll
  EveryTimedCallEnds
  ThreadCallsRun
