----------------------------- MODULE MCIsvMain -----------------------------
(* Two groups, one of them supported, and one enclave more than one        *)
(* process creates when its first one is lost.                             *)
EXTENDS IsvMain

MCGids == {0, 1}
MCSupported == {0}
MCIds == 1 .. 3
AllFaults == {FaultKinds, {}}
=============================================================================
