SPECIFICATION Spec
CONSTANTS
  Names = {a, b, notes}
  Wavs = {a, b}
  a = a
  b = b
  notes = notes
  Sizes = {1, 2}
  Sources <- MCSources
  MaxOps = 2
  MaxTries = 2
  NoManifest = NoManifest
CHECK_DEADLOCK FALSE
INVARIANT AcceptedIsListed
