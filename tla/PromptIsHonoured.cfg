CONSTANTS
  Texts <- LongTexts
  Leftovers <- NoLeftover
  BufSize = 30
  Half = 128
  AnyLength = 0
  FormedLength = 5
  Meaning <- NoMeaning
  MCDigits = {"2", "9"}
SPECIFICATION AcSpec
INVARIANT PromptIsHonoured
CHECK_DEADLOCK FALSE
