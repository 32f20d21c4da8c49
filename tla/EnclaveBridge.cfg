CONSTANTS
  Bridges <- AllBridges
  MaxOcalls = 2
SPECIFICATION BrSpec
INVARIANTS
  BrTypeOK
  NothingLeaked
  ArgumentsComplete
  HostSeesResult
  RightFunction
  OcallStatusTells
