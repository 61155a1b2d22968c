CONSTANTS
  c1 = c1
  c2 = c2
  w1 = w1
  w2 = w2
  Change <- MCChange
  Worker <- OneWorker
  Input <- AllInputs
  Days = 2
  Grace = 1
  PreviewTtl = 2
  Horizon = 5
SYMMETRY ChangeSymmetry
SPECIFICATION Spec
CHECK_DEADLOCK FALSE
INVARIANT BoundaryCovered
