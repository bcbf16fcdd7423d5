SPECIFICATION Spec
CONSTANTS
  w = w
  l = l
  f1 = f1
  f2 = f2
  m = m
  None = None
  WorkflowRuns <- OneWorkflow
  LegacyRuns <- OneLegacy
  TimedRuns = {}
  Failures <- TwoFailures
  Surface <- OneMember
  MaxIterations = 3
  NoProgressK = 2
  ComprehensionEvery <- Thresholds
  MaxStarts = 2
  MaxTrouble = 1
SYMMETRY AnyFailures
CHECK_DEADLOCK FALSE
INVARIANTS AckClears
