SPECIFICATION FairSpec
CONSTANTS
  l1 = l1
  l2 = l2
  Legs = {l1, l2}
  Profile <- OneOfEach
  Conditions = {TRUE, FALSE}
  MaxRetries = 1
  MaxCrashes = 2
  MaxFaults = 3
  MaxHarshFaults = 2
CHECK_DEADLOCK FALSE
INVARIANTS TypeOK NoSplitBrain
PROPERTIES PublishedIsVerdict VerdictIsFinal OpenCheckIsConcluded ExecutionEnds
