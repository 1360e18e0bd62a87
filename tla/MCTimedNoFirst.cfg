CONSTANTS
  Apelido = {1, 2, 3}
  BROADCAST = BROADCAST
  t1 = t1
  Text <- MCText
  None = None
  QueueMax = 1
  MaxEpoch = 3
  Machines = {1, 2, 3}
  TokenTime = 2
  TokenTimeout = 20
  MinTokenInterval = 1
  DiscoveryWindow = 12
  PresenceInterval = 4
  MemberTimeout = 12
  DataQuietPeriod = 2
  Destinos = {3}
  SettledLeaves = FALSE
  Scenarios <- MCLeave
SPECIFICATION FairSpec
PROPERTY FirstToken
