CONSTANTS
  write = write
  read = read
  Request <- MCRequest
  ReadRequest <- MCReadRequest
  Module <- MCModule
  Capabilities <- MCCapabilities
  Dependencies <- MCDependencies
  Required <- MCRequired
  Offer <- MCOffer
  InitialSources <- MCInitialSources
  Registry <- MCRegistry
  MaxLimit = 3
  Never <- MCNever
  ClockOffset <- MCClockOffset
  MaxVersion = 3
  MaxMoves = 1
  InitialCatalogs <- MCInitialCatalogs
  Horizon = 2
SPECIFICATION Spec
INVARIANTS
  SInv
  HeadExact
  ExecutesUnderRights
PROPERTIES
  ReadUnderRights
CHECK_DEADLOCK FALSE
