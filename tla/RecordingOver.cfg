SPECIFICATION FairSpec
CONSTANTS
  Fleet = 1
  Sessions = 1
  Crashes = 1
  Restarts = 0
PROPERTY StopReconciles
CHECK_DEADLOCK FALSE
