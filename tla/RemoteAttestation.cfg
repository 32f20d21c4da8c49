CONSTANTS
  Gids <- MCGids
  SupportedGids <- MCSupported
  EnclaveIds <- ThreeRoundIds
  GaKeys <- ThreeRoundIds
  MaxGb = 3
  MaxRounds = 3
  FaultSets <- AllOrNoFaults
SPECIFICATION AttendedSpec
INVARIANTS
  SuccessMeansAttested
  FailedStepNeverAccepted
  RetryBudget
PROPERTIES
  SecretOnlyAfterVerifiedMac
  AcceptedInSoundProcess
  ImplementsAttestation
  ChallengeEnds
  FaultFreeSucceeds
CHECK_DEADLOCK FALSE
