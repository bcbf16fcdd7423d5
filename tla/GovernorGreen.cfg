SPECIFICATION Spec
CONSTANTS
  c0 = c0
  c1 = c1
  Contents <- Two
  InitialTree = c0
  Torn = Torn
  None = None
  NoScore = NoScore
  Evidence <- Proofs
  Sign = 1
  MinScore = 0
  MaxScore = 2
  TargetScore = 2
  MinImprovement = 1
  Tolerance = 1
  Patience = 2
  Settings <- Scored
  MaxIterations = 2
  MaxStarts = 1
  MaxFaults = 0
CHECK_DEADLOCK FALSE
INVARIANT SuccessShowsGreen
