CONSTANTS
  w1 = w1
  w2 = w2
  r1 = r1
  r2 = r2
  Worker <- MCWorker
  Request <- MCRequest
  NSteps = 1
  MaxAttempts = 2
  ReconcileLimit = 1
  ActivationLimit = 1
  RetryLimit = 1
  Lease = 2
  Deadline = 3
  Horizon = 6
  TimelyDispatch = FALSE
  t1 = t1
  Tenant <- MCTenant
  Activations = 2
  Calls = 2
  Nobody = Nobody
  Stranger = Stranger
  MaxTraffic = 7
SYMMETRY Symmetry
SPECIFICATION ActivationSpec
INVARIANTS
  Integrity
  AttemptBudget
  ConsoleInv
  GivenUpForGood
PROPERTIES
  TerminalIsFinal
CHECK_DEADLOCK FALSE
