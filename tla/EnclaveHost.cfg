CONSTANTS
  Server = server
  Others = {bench}
  Exprs <- MCExprs
  Size <- MCSize
  Capacity = 2
SPECIFICATION EtSpec
INVARIANTS
  EhTypeOK
  TokenWhole
  FreshEnclave
  LostCallNotAnswered
  ResultsExplained
PROPERTY ImplementsEvaluation
