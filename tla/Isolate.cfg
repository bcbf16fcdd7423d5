SPECIFICATION FairSpec
CONSTANTS
  MaxSignals = 2
  MaxFaults = 2
CHECK_DEADLOCK FALSE
INVARIANTS TypeOK ReturnScrubs NoZoneOnRevokedKey
PROPERTY SignalEndsRun
