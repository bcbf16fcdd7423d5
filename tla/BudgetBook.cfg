SPECIFICATION Spec
CONSTANTS
  Name = {build, critic}
  MaxCost = 1
  MaxInt = 3
  MaxIterations = 2
  MaxStarts = 2
  MaxFaults = 1
  MaxRecords = 3
  Settings <- Modes
  None = None
CHECK_DEADLOCK FALSE
INVARIANTS TypeOK SavedBookLoads ChargesKept StrictIsACap
PROPERTIES ObservedStops
