CONSTANTS
  FlagSets <- MCMaster
  OldLinks <- MCAllLinks
  TornWrites = FALSE
  Others = {"start"}
SPECIFICATION Spec
INVARIANT SymlinkErrorPropagated
CHECK_DEADLOCK FALSE
