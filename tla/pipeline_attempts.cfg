SPECIFICATION Spec
CONSTANTS
  Credentials = {w1, w2}
  NoCredential = none
  Slots = {h1}
  MaxRuns = 1
  MaxAttempts = 2
  MaxRetries = 1
  Originals = {"good"}
  Artifacts = {"good"}
  AppRequests = {}
SYMMETRY Symmetry
INVARIANTS LeaseIsLatestClaim
PROPERTIES AttemptIsGrantedOnce QueueSpec
\* The bounds stop the system: an ended meeting has no step left.
CHECK_DEADLOCK FALSE
