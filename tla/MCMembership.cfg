CONSTANTS
  founder = founder
  u1 = u1
  owner = owner
  r1 = r1
  s1 = s1
  q1 = q1
  q2 = q2
  t1 = t1
  t2 = t2
  none = none
  User <- MCUser
  Founder = founder
  Role <- MCRole
  Owner = owner
  Site <- MCSite
  Request <- MCRequest
  NoRequest = none
  MaxVersion = 3
  Tenant <- MCTenant
  NoTenant = none
  Session <- MCSession
  Tab <- MCTab
  SessionTTL = 2
  RefreshWindow = 1
  MaxContext = 1
  LastTime = 3
SYMMETRY Symmetry
SPECIFICATION AccessSpec
INVARIANTS
  MInv
  OwnerPresent
  SessionInv
  AnsweredUnderAuthority
PROPERTIES
  RestorationFaithful
  SessionMoves
CHECK_DEADLOCK FALSE
