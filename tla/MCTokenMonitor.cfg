CONSTANTS
  TokenTime = 2
  TokenTimeout = 6
  MaxRound = 3
  MaxLag = 2
  MaxSends = 2
  MaxLoseToken = 1
  MaxLoseData = 1
  MaxRoles = 1
SPECIFICATION FairSpec
INVARIANTS
  TypeOK
  OneTimeoutOnBus
PROPERTIES
  NoFalseAlarm
  Recovers
