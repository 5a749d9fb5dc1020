CONSTANTS
  FlagSets <- MCBlockMaster
  OldLinks <- MCAllLinks
  TornWrites = FALSE
  Others = {}
SPECIFICATION Spec
PROPERTY BlockReturnsAfterExit
CHECK_DEADLOCK FALSE
