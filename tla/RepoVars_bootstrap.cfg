SPECIFICATION Spec
CONSTANTS
  Operators = {o1, o2}
  Deployments = {d1, d2}
  Contexts = {gate, build}
  Bmt = {gate}
  gate = gate
  build = build
  None = None
  Empty = Empty
  Overrides <- MCOverrides
  Retries = 2
  MaxRuns = 2
  MaxEvents = 1
SYMMETRY MCSymmetry
CHECK_DEADLOCK FALSE
PROPERTY BootstrapReportsFailures
