SPECIFICATION Spec
CONSTANTS
  pa = pa
  pb = pb
  la = la
  lb = lb
  Manifests <- TwoManifests
  ProjectOf <- TwoProjects
  FileOf <- OwnFiles
  Tolerant <- FirstTolerant
  Stages <- MCStages
  Requests <- MCRequests
  NoResult = NoResult
  Malformed = Malformed
  MaxRetries = 1
  MaxDeaths = 2
  MaxAnnotations = 1
  ScanLimit = 2
  Before <- MCBefore
  Raising = {"setup", "execute"}
  MaxTroubles = 2
INVARIANTS TypeOK LegsHaveTasks SnapshotMatchesSummary ReportIsTruthful NewestCommentIsVerdict
