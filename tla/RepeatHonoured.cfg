CONSTANTS
  Clients = {c1}
  Files <- MCFiles
  Lines <- MCLines
  Texts <- MCTexts
  Expressions <- MCTexts
  Length <- MCLength
  Byte <- MCByte
  Numeral <- MCNumeral
  KeyLength <- MCKeyLength
  AesKey <- MCAesKey
  GCM <- MCGCM
  MaxTyped = 2
  MayEnd = FALSE
SPECIFICATION CsFairSpec
PROPERTY RepeatHonoured
CHECK_DEADLOCK FALSE
