----------------------- MODULE MCRemoteAttestation -----------------------
(* Two groups, one of them supported, and two enclaves per challenge: one  *)
(* more than a challenge creates when its enclave is not lost.             *)
EXTENDS RemoteAttestation

MCGids == {0, 1}
MCSupported == {0}
OneRoundIds == 1 .. 2
ThreeRoundIds == 1 .. 5
AllOrNoFaults == {FaultKinds, {}}
SdkFaults == {{"sdk"}}
=============================================================================
