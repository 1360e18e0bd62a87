CONSTANTS
  Apelido = {1, 2}
  BROADCAST = BROADCAST
  Text = {t1}
  None = None
  Me <- MCMe
  QueueMax = 1
  MaxEpoch = 1
  MaxAttempts = 3
  MaxCount = 1
  MaxTimers = 1
SPECIFICATION Spec
INVARIANTS
  TypeOK
  WaitingHoldsToken
  TokenNotStuck
  RemovalKept
  MonitorInStep
  ActiveIsHead
  RetransmitOnce
