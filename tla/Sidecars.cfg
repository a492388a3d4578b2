SPECIFICATION Spec
CONSTANTS
  Outages = 2
  Sent = 3
  Bytes = 3
  Period = 2
  Plans <- MCPlans
INVARIANTS GimbalIsSecond FramesWhole UploadHonest ReportsTrue
PROPERTY SidecarsServe
CHECK_DEADLOCK FALSE
