SPECIFICATION FairSpec
CONSTANTS
  leader = leader
  m1 = m1
  e1 = e1
  Members <- OneMember
  Escapees <- OneEscapee
  Limit = 2
  MaxOutput = 3
CHECK_DEADLOCK FALSE
INVARIANTS TypeOK OwnedGroupEnds AcceptedIsWhole
PROPERTIES RunReturns
