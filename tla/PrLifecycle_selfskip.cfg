CONSTANTS
  d1 = d1
  d2 = d2
  d3 = d3
  r1 = r1
  r2 = r2
  r3 = r3
  Dispatches = {d1, d2}
  RunIds = {r1, r2, r3}
  RunOf <- TwoRuns
  Faulty = {}
  Serial = TRUE
  ReadsFail = FALSE
  MaxCas = 2
  MaxCleanups = 0
  Calm = FALSE
  NoRecord = NoRecord
  NoCheck = NoCheck
CHECK_DEADLOCK FALSE
SPECIFICATION LifecycleSpec
PROPERTIES
  PlanSkipsOnlyWhenNewer
