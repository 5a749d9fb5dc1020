CONSTANTS
  FlagSets <- MCNonBlock
  OldLinks <- MCAllLinks
  TornWrites = FALSE
  Others = {"start"}
SPECIFICATION Spec
PROPERTY ReturnsEventually ContractSpec
CHECK_DEADLOCK FALSE
