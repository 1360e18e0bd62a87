CONSTANTS
  Apelido = {1, 2, 3, 4}
  BROADCAST = BROADCAST
  t1 = t1
  t2 = t2
  Text = {t1, t2}
  None = None
  QueueMax = 2
  MaxEpoch = 2
  Machines = {1, 2, 3}
  Patient = FALSE
  Scenarios <- MCUdp
\* The controller regenerates at most MaxEpoch - 1 tokens here: a ring that
\* has lost the last of them stops.
CHECK_DEADLOCK FALSE
SPECIFICATION Spec
INVARIANTS
  AckMeansDelivered
  TokenLedger
  RingIntact
