SPECIFICATION Spec
CONSTANTS
  c1 = c1
  c2 = c2
  t = t
  p = p
  Nothing = Nothing
  Runs = {c1, c2, t}
  Projects = {p}
  Wants <- MCWants
  Kinds <- MCKinds
  FileCount = 2
  Builds <- MCBuilds
CHECK_DEADLOCK FALSE
INVARIANTS AcceptedHasRunner PinnedLegRunsItsCommit MetaDescribesBucket
