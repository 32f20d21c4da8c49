-------------------------- MODULE MCEnclaveBridge --------------------------
(* Every ECALL and OCALL of the three enclaves, with every combination of  *)
(* pointers.                                                               *)
EXTENDS EnclaveBridge, BridgeTables
=============================================================================
