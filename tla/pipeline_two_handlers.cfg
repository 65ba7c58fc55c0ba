SPECIFICATION Spec
CONSTANTS
  Credentials = {w1}
  NoCredential = none
  Slots = {h1, h2}
  MaxRuns = 1
  MaxAttempts = 1
  MaxRetries = 0
  Originals = {"good"}
  Artifacts = {"good", "corrupt"}
  AppRequests = {"delete"}
SYMMETRY Symmetry
INVARIANTS ActiveRunHasWork FailedJobEndsRun ReadyMeansIngested VersionIsVerified
\* The bounds stop the system: an ended meeting has no step left.
CHECK_DEADLOCK FALSE
