SPECIFICATION FairSpec
CONSTANTS
  Proc = {p1, p2}
  CallID = {c1, c2}
  builder = builder
  critic = critic
  Phase <- Phases
  Policy <- TwoPolicies
  Partial = Partial
  NoPolicy = NoPolicy
  NoJob = NoJob
INVARIANTS TypeOK LaunchedAtMostOnce GrantsWithinAllowance GrantsRecorded
PROPERTIES SpentForever ImplementsAllowance EveryCommandAnswered
