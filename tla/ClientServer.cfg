CONSTANTS
  Clients = {c1, c2}
  Files <- MCFiles
  Lines <- MCLines
  Texts <- MCTexts
  Expressions <- MCTexts
  Length <- MCLength
  Byte <- MCByte
  Numeral <- MCNumeral
  KeyLength <- MCKeyLength
  AesKey <- MCAesKey
  GCM <- MCGCM
  MaxTyped = 2
  MayEnd = TRUE
SPECIFICATION CsFairSpec
INVARIANTS
  OneTurn
  ExpressionOnlyAttested
  ResultOfOwnExpression
  LinesSurvive
  WaitOnlyByUser
PROPERTY SessionsEnd
CHECK_DEADLOCK FALSE
