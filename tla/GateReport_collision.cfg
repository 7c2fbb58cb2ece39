SPECIFICATION Spec
CONSTANTS
  pa = pa
  pb = pb
  la = la
  lb = lb
  Manifests <- TwoManifests
  ProjectOf <- TwoProjects
  FileOf <- OneFile
  Tolerant <- FirstTolerant
  Stages <- PlainStages
  Requests <- MCRequests
  NoResult = NoResult
  Malformed = Malformed
  MaxRetries = 1
  MaxDeaths = 2
  MaxAnnotations = 1
  ScanLimit = 2
  Before <- MCBefore
  Raising = {"setup", "execute"}
  MaxTroubles = 0
INVARIANT GreenHidesNoLeg
