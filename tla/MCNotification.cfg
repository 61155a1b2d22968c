CONSTANTS
  w1 = w1
  w2 = w2
  u1 = u1
  u2 = u2
  e1 = e1
  Worker <- MCWorker
  User <- MCUser
  Event <- MCEvent
  Contents <- MCContents
  MaxChanges = 1
  MaxFaults = 1
  MaxAttempts = 2
  Lease = 1
  Backoff <- MCBackoff
  RouteLease = 1
SPECIFICATION FairSpec
INVARIANTS
  NInv
  DeliveryInv
PROPERTIES
  RoutedFresh
  SentWithConsent
  NotificationsSettle
CHECK_DEADLOCK FALSE
