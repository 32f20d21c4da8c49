CONSTANTS
  Texts <- MCTexts
  Leftovers <- SomeLeftover
  BufSize = 30
  Half = 128
  AnyLength = 4
  FormedLength = 7
  Meaning <- MCMeaning
  MCDigits = {"2", "9"}
SPECIFICATION AcFairSpec
INVARIANTS
  OpenParentheses
  FormedIsDefined
  ValueIsCorrect
  OverrunBounded
PROPERTY EvaluationEnds
CHECK_DEADLOCK FALSE
