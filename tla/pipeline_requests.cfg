SPECIFICATION FairSpec
CONSTANTS
  Credentials = {w1}
  NoCredential = none
  Slots = {h1}
  MaxRuns = 1
  MaxAttempts = 2
  MaxRetries = 1
  Originals = {"good", "mismatch"}
  Artifacts = {"good"}
  AppRequests = {"cancel"}
 
PROPERTIES RunSettles
\* The bounds stop the system: an ended meeting has no step left.
CHECK_DEADLOCK FALSE
