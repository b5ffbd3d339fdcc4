CONSTANTS
  Gets = {g1, g2}
  Puts = {p1}
  MaxSockets = 1
  MAX_RETRANSMIT = 2
  MaxEvents = 4
SPECIFICATION FairSpec
INVARIANTS TypeOK ErrorIsExplained
PROPERTIES SuccessIsFinal GetReturns
CHECK_DEADLOCK FALSE
