CONSTANTS
  InputTexts <- MCTexts
  MathFn <- MCMathFn
  AnyPieces = 4
  FormedTokens = 4
  Formed <- MCFormed
  FormedLists <- MCFormedLists
  FormedKinds <- MCFormedKinds
SPECIFICATION OpSpec
INVARIANTS
  AcceptsGrammar
  ValueOfGrammar
PROPERTY TokenizingEnds
CHECK_DEADLOCK FALSE
