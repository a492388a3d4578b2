SPECIFICATION FairSpec
CONSTANTS
  Fleet = 1
  Sessions = 2
  Crashes = 1
  Restarts = 1
INVARIANTS
  Owned
PROPERTIES
  StopIsComplete
  KeepsPromise
  RecordersEnd
CHECK_DEADLOCK FALSE
