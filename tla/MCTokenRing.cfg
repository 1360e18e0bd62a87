CONSTANTS
  Apelido = {1, 2, 3, 4}
  BROADCAST = BROADCAST
  t1 = t1
  t2 = t2
  Text = {t1, t2}
  None = None
  QueueMax = 2
  MaxEpoch = 3
  Machines = {1, 2, 3}
  Patient = TRUE
  Scenarios <- MCPatient
SPECIFICATION FairSpec
INVARIANTS
  AtMostOneToken
  MediumExclusive
  AtMostOnceDelivery
PROPERTIES
  ImplementsService
  MessagesConclude
