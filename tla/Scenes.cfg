SPECIFICATION Spec
CONSTANTS
  Tools = {t1, t2}
  Runs = 2
  Edits = 1
  Savers = {1, 2, 3}
  Entities = {1, 2}
  Starts = 3
  Width = 4
SYMMETRY Terminals
INVARIANTS PipelineHolds SaveLosesNothing ScenarioStands BuiltTrue
CHECK_DEADLOCK FALSE
