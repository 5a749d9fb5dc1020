CONSTANTS
  FlagSets <- MCBlock
  OldLinks <- MCAllLinks
  TornWrites = TRUE
  Others = {"stop", "start"}
SPECIFICATION Spec
PROPERTY ContractSpec
CHECK_DEADLOCK FALSE
