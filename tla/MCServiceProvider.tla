------------------------- MODULE MCServiceProvider -------------------------
(* The provider alone, on two groups, two enclave keys and a few exchanges. *)
EXTENDS ServiceProvider

MCGids == {0, 1}
MCSupported == {0}
MCGaKeys == {1, 2}
=============================================================================
