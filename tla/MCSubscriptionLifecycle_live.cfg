CONSTANTS
  c1 = c1
  c2 = c2
  w1 = w1
  w2 = w2
  Change <- MCChange
  Worker <- TwoWorkers
  Input <- ScheduledInputs
  Days = 2
  Grace = 1
  PreviewTtl = 2
  Horizon = 4
SPECIFICATION FairSpec
CHECK_DEADLOCK FALSE
PROPERTIES
  ScheduleResolves
  ExpiryNoticed
