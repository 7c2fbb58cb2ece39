SPECIFICATION GateSpec
CONSTANTS
  Attempts = 1
  MaxDrops = 0
CHECK_DEADLOCK FALSE
INVARIANT SkipMeansNoDispatch
