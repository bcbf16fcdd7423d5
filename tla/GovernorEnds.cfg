SPECIFICATION FairSpec
CONSTANTS
  c0 = c0
  c1 = c1
  Contents <- Two
  InitialTree = c0
  Torn = Torn
  None = None
  NoScore = NoScore
  Evidence <- Proofs
  Sign = 1
  MinScore = 1
  MaxScore = 2
  TargetScore = 2
  MinImprovement = 1
  Tolerance = 1
  Patience = 2
  Settings <- Ordinary
  MaxIterations = 1
  MaxStarts = 2
  MaxFaults = 1
CHECK_DEADLOCK FALSE
PROPERTY EveryProcessEnds
