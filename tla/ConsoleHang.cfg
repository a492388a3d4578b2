\* No command; the reader fails once, and later hangs.
SPECIFICATION FairSpec
CONSTANTS
  Edits = 1
  Faults = 2
  Commands = 0
PROPERTIES
  HangAlwaysRecovered
CHECK_DEADLOCK FALSE
