SPECIFICATION BaselineSpec
CONSTANTS
  r1 = r1
  r2 = r2
  r3 = r3
  r4 = r4
  Runs = {r1, r2, r3, r4}
  NoRun = NoRun
  OneAtATime = TRUE
  MaxRetries = 1
  MaxReruns = 1
  MaxDeaths = 2
  MaxPromotions = 1
SYMMETRY RunSymmetry
CHECK_DEADLOCK FALSE
INVARIANTS PointerNamesSnapshots BaselineIsPassing
PROPERTY PointerIsRegister
