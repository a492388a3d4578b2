SPECIFICATION FairLinks
CONSTANTS
  Vehicles = {v1}
  LinkRetry = 2
  Connect = 1
  Silent = 2
  Changes = 3
  Failures = 2
INVARIANTS
  Truthful
PROPERTIES
  TelemetryFollows

