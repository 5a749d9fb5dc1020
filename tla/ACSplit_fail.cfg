CONSTANTS
  Alphabet <- MCAlphabet
  PatternSets <- OverlapSets
  Texts <- MCTexts
SPECIFICATION Spec
INVARIANT WholeLineOnlyWithoutKeyword
CHECK_DEADLOCK FALSE
