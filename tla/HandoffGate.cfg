SPECIFICATION GateSpec
CONSTANTS
  Attempts = 2
  MaxDrops = 1
CHECK_DEADLOCK FALSE
INVARIANT ForcedGateNeverFails
PROPERTIES VerdictStands GateIsDecided
