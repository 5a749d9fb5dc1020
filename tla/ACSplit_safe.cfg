CONSTANTS
  Alphabet <- MCAlphabet
  PatternSets <- SubstringFreeSets
  Texts <- MCTexts
SPECIFICATION Spec
INVARIANT Reconstruction
INVARIANT MatchedArePatterns
INVARIANT NoPanic
\* splitWithAC returns: a finished walk has no successor.
CHECK_DEADLOCK FALSE
