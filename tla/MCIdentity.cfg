CONSTANTS
  e1 = e1
  e2 = e2
  c1 = c1
  c2 = c2
  w1 = w1
  w2 = w2
  Event <- MCEvent
  Client <- MCClient
  Replica <- MCWorker
  CodeTTL = 2
  AuthorizationTTL = 1
  ResendInterval = 1
  SendLimitWindow = 2
  MaxSendsPerWindow = 1
  MaxVerificationTries = 1
  MaxAttempts = 2
  Lease = 1
  Backoff <- MCBackoff
  Login <- MCLogin
  Handler <- MCHandler
  FlowTTL = 2
  LoginTTL = 1
  AuthCodeTTL = 1
  MaxFailures = 3
  Window = 1
  Lockout = 1
  InitialTTL = 1
  MaxSecret = 2
  Horizon = 2
SPECIFICATION IdentitySpec
INVARIANTS
  VInv
  LoginInv
PROPERTIES
  SpentOnce
SYMMETRY Symmetry
CHECK_DEADLOCK FALSE
