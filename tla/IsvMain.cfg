CONSTANTS
  Gids <- MCGids
  SupportedGids <- MCSupported
  EnclaveIds <- MCIds
  GaKeys <- MCIds
  MaxGb = 2
  MaxRounds = 1
  FaultSets <- AllFaults
SPECIFICATION MainSpec
INVARIANTS
  ExitTellsOutcome
  AcceptedOnlyFlawless
PROPERTIES
  MainEnds
CHECK_DEADLOCK FALSE
