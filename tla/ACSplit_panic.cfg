CONSTANTS
  Alphabet <- MCAlphabet
  PatternSets <- PrefixSets
  Texts <- MCTexts
SPECIFICATION Spec
INVARIANT NoPanic
CHECK_DEADLOCK FALSE
