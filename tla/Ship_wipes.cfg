SPECIFICATION Spec
CONSTANTS
  Operators = {o1, o2}
  Commits = {c1, c2}
  Projects = {sk, skyworth}
  Files = {"plugin", "leg"}
  Foreign = {"runner"}
  Plugin = "plugin"
  Contents = {x, y}
  sk = sk
  skyworth = skyworth
  c1 = c1
  c2 = c2
  x = x
  y = y
  None = None
  Edited = Edited
  Branched = {c2}
  Prefixed <- MCPrefixed
  Tree <- MCTree
  Runtime <- MCRuntime
  MaxRuns = 3
  MaxOverlapping = 2
  MaxFails = 1

CHECK_DEADLOCK FALSE

PROPERTY SyncStaysInItsProject
