CONSTANTS
  Gids <- MCGids
  SupportedGids <- MCSupported
  EnclaveIds <- OneRoundIds
  GaKeys <- OneRoundIds
  MaxGb = 1
  MaxRounds = 1
  FaultSets <- SdkFaults
SPECIFICATION AttendedSpec
PROPERTY FailureIsReported
CHECK_DEADLOCK FALSE
