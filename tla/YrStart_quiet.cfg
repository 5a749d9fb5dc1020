CONSTANTS
  FlagSets <- MCQuietMaster
  OldLinks <- MCAllLinks
  TornWrites = FALSE
  Others = {}
SPECIFICATION Spec
INVARIANT ErrorLeavesNothingRunning
CHECK_DEADLOCK FALSE
