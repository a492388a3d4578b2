SPECIFICATION Bench
CONSTANTS
  Commands = {"arm", "takeoff", "land", "goto", "gimbal", "click", "status", "detect", "capture"}
  Top = 3
  Deadline = 2
  Attempts = 2
  Repeat = 2
  Frames = 3
  Depth = 2
  Wait = 1
  Window = 1
  Poses = 3
  Captures = 3
  Ops = 3
  Careless = TRUE
  Scenarios = {"A", "B", "C", "D", "F", "G", "H", "I", "J"}
  LeftFor = {"A"}
  Tries = 2
  Lag = 1
INVARIANTS ClickCounts RowsTrue ReadsTrue VerdictTrue
PROPERTIES PatientWhenItFlies CommandEnds FromTheTop
CHECK_DEADLOCK FALSE
