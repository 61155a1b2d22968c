CONSTANTS
  c1 = c1
  c2 = c2
  w1 = w1
  w2 = w2
  Change <- MCChange
  Worker <- OneWorker
  Input <- AllInputs
  Days = 2
  Grace = 1
  PreviewTtl = 2
  Horizon = 4
  first = first
  second = second
  Module <- MCModule
  Dependencies <- MCDependencies
  Feature <- MCFeature
  Uses <- MCUses
  Terms <- MCTerms
  SalesScope <- MCSalesScope
  Listed <- MCListed
  MaxCommands = 8
SYMMETRY ChangeSymmetry
SPECIFICATION SalesSpec
INVARIANTS
  ReservationBacked
  FenceCloses
  PeriodInv
  OfferInv
PROPERTIES
  NeverDegradedEarly
  RightsComeFromChanges
  ConfirmedAsPreviewed
  OfferMoves
CHECK_DEADLOCK FALSE
