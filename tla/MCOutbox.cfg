CONSTANTS
  w1 = w1
  w2 = w2
  Worker <- MCWorker
  MaxVersion = 3
  MaxDeliveries = 2
SPECIFICATION FairSpec
INVARIANTS
  OInv
PROPERTIES
  ImplementsProjection
  ImplementsProjectionLive
CHECK_DEADLOCK FALSE
