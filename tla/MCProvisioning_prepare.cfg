CONSTANTS
  w1 = w1
  w2 = w2
  r1 = r1
  r2 = r2
  Worker <- MCWorker
  Request <- MCOneRequest
  NSteps = 2
  MaxAttempts = 1
  ReconcileLimit = 1
  ActivationLimit = 1
  RetryLimit = 1
  Lease = 2
  Deadline = 3
  Horizon = 6
  TimelyDispatch = TRUE
SPECIFICATION FairSpec
INVARIANTS
  AppliedOnlyWhenPrepared
  CancelledLeavesNothing
PROPERTIES
  NoBlindDispatch
  EventuallySettles
CHECK_DEADLOCK FALSE
