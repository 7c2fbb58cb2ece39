CONSTANTS
  l1 = l1
  l2 = l2
  Legs = {l1}
  Profile <- OneLeg
  Conditions = {FALSE}
  MaxRetries = 1
  MaxCrashes = 0
  MaxFaults = 2
  MaxHarshFaults = 0
CHECK_DEADLOCK FALSE
SPECIFICATION Spec
PROPERTIES
  CleanupAfterBothPublished
