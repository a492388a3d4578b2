SPECIFICATION Spec
CONSTANTS
  MaxFleet = 2
  Words = {0, 1, 2, 12}
  Selections = {{}, {1}, {2}, {1, 2}, {12}, {0, 1}}
  Scenes = {"uroc", "farm"}
  Uroc = "uroc"
  Companions = 1
INVARIANTS
  OneWorld
  SelectionHoused
  BenchSettled
PROPERTIES
  BenchGivesBack
CHECK_DEADLOCK FALSE
