\* One change of .env, one fault of the reader and two commands.
SPECIFICATION FairSpec
CONSTANTS
  Edits = 1
  Faults = 1
  Commands = 2
INVARIANTS
  CommandTrue
PROPERTIES
  SettingsShown
  HangRecovered
CHECK_DEADLOCK FALSE
