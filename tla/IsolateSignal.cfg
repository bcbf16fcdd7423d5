SPECIFICATION FairSpec
CONSTANTS
  MaxSignals = 1
  MaxFaults = 0
CHECK_DEADLOCK FALSE
INVARIANT SignalRevokes
