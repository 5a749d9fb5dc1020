CONSTANTS
  Alphabet <- MCAlphabet
  PatternSets <- AnySets
  Texts <- MCTexts
SPECIFICATION Spec
INVARIANT MatchedArePatterns
\* splitWithAC returns or panics: either way the walk has no successor.
CHECK_DEADLOCK FALSE
