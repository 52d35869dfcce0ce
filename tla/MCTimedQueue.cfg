CONSTANTS
  p1 = p1
  p2 = p2
  none = none
  Producers <- MCProducers
  Stamps <- MCStamps
  Timeouts <- MCTimeouts
  NoTimeout = none
  IdleWait = 2
  MaxPuts = 3
  MaxNow = 3
SPECIFICATION FairSpec
INVARIANT TypeOK
PROPERTIES ImplementsContract EveryItemDelivered
CHECK_DEADLOCK FALSE
