CONSTANTS
  Gids <- MCGids
  SupportedGids <- MCSupported
  GaKeys <- MCGaKeys
  MaxGb = 3
SPECIFICATION SpSpec
INVARIANTS
  SpTypeOK
  IssuedCoherent
  SupersededRefused
