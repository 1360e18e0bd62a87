CONSTANTS
  MaxNews = 2
  MaxTicks = 1
  MaxAlarms = 1
SPECIFICATION FairSpec
INVARIANTS
  TypeOK
  TwoTimersAtMost
  EvaluationKept
  NothingLeftRunning
PROPERTY EvaluationComes
