SPECIFICATION Spec
CONSTANTS
  t = t
  a = a
  x = x
  b = b
  c0 = c0
  c1 = c1
  None = None
  Order <- Walk
  Parent <- XIsInA
  Contents <- TwoContents
  Irregular = Irregular
  MaxFiles = 2
  Readable <- Short
  MaxAttempts = 1
  MaxTrouble = 2
SYMMETRY AnyContents
CHECK_DEADLOCK FALSE
INVARIANTS TypeOK CalmRestoreSucceeds
PROPERTIES AnswersWhole RestoredIsBest
