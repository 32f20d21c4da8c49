---------------------------- MODULE IsvEnclave ----------------------------
(***************************************************************************)
(* The attestation enclaves of isv_enclave.cpp.  Every attestation creates *)
(* an enclave of its own and opens one key-exchange context in it; the     *)
(* contexts, the exchange itself (sgx_ra_get_msg1, sgx_ra_proc_msg2) and   *)
(* the enclave's life belong to the SGX SDK and are modelled from the way  *)
(* isv_app.cpp and isv_enclave.cpp use them.                               *)
(*                                                                         *)
(* An ECALL into an enclave that is not live fails; one into a live        *)
(* enclave may fail as well (SGX_ERROR_OUT_OF_MEMORY and the like).  A     *)
(* power transition (S3) loses every live enclave.                         *)
(***************************************************************************)
EXTENDS Naturals

CONSTANT EnclaveIds      \* ids sgx_create_enclave may return: 1 .. n

ASSUME EnclaveIdsAssumption == EnclaveIds \subseteq Nat \ {0}

VARIABLES
  life,      \* what became of each enclave
  ra,        \* state of its key-exchange context
  ga,        \* public key its context offered in MSG1, 0 if none
  gb,        \* the provider's key it accepted in MSG2, 0 if none
  secret     \* key that encrypted the secret stored in g_secret

enclaveVars == <<life, ra, ga, gb, secret>>

Life == {"unborn", "live", "lost", "destroyed"}
RaState == {"none", "inited", "get_gaed", "proc_msg2ed", "closed"}

NoSecret == <<0, 0>>

EnclaveInit ==
  /\ life = [e \in EnclaveIds |-> "unborn"]
  /\ ra = [e \in EnclaveIds |-> "none"]
  /\ ga = [e \in EnclaveIds |-> 0]
  /\ gb = [e \in EnclaveIds |-> 0]
  /\ secret = [e \in EnclaveIds |-> NoSecret]

(* Id 0 is the initial value of enclave_id: no enclave.                    *)
Live(e) == e \in EnclaveIds /\ life[e] = "live"

(* Ids are handed out in order.                                            *)
Unborn(e) ==
  /\ life[e] = "unborn"
  /\ \A f \in EnclaveIds : f < e => life[f] # "unborn"

sgx_create_enclave(e) ==
  /\ Unborn(e)
  /\ life' = [life EXCEPT ![e] = "live"]
  /\ UNCHANGED <<ra, ga, gb, secret>>

(* enclave_init_ra with b_pse = false: one new context.                    *)
enclave_init_ra(e) ==
  /\ Live(e)
  /\ ra[e] = "none"
  /\ ra' = [ra EXCEPT ![e] = "inited"]
  /\ UNCHANGED <<life, ga, gb, secret>>

(* sgx_ra_get_msg1 generates the context's key pair.  It does so once per  *)
(* context, and an enclave has one context: the key goes by the enclave.   *)
CanGetMsg1(e) == Live(e) /\ ra[e] = "inited"

sgx_ra_get_msg1(e) ==
  /\ CanGetMsg1(e)
  /\ ra' = [ra EXCEPT ![e] = "get_gaed"]
  /\ ga' = [ga EXCEPT ![e] = e]
  /\ UNCHANGED <<life, gb, secret>>

(***************************************************************************)
(* sgx_ra_proc_msg2 accepts a MSG2 that is signed for its own g_a and      *)
(* MACed with the SMK of the exchange, and derives the four keys.          *)
(***************************************************************************)
AcceptsMsg2(e, m2) ==
  /\ Live(e)
  /\ ra[e] = "get_gaed"
  /\ m2.sign_gb_ga = <<m2.gb, ga[e]>>
  /\ m2.mac = <<ga[e], m2.gb>>

sgx_ra_proc_msg2(e, m2) ==
  /\ AcceptsMsg2(e, m2)
  /\ ra' = [ra EXCEPT ![e] = "proc_msg2ed"]
  /\ gb' = [gb EXCEPT ![e] = m2.gb]
  /\ UNCHANGED <<life, ga, secret>>

(* sgx_ra_get_keys: the keys of the context's exchange.                    *)
KeysOf(e) == <<ga[e], gb[e]>>
HasKeys(e) == Live(e) /\ ra[e] = "proc_msg2ed"

(* verify_att_result_mac recomputes the CMAC with the context's MK.        *)
verify_att_result_mac(e, macKey) == HasKeys(e) /\ macKey = KeysOf(e)

(* put_secret_data decrypts into g_secret when the GCM tag verifies.       *)
DecryptsSecret(e, encKey) == HasKeys(e) /\ encKey = KeysOf(e)

put_secret_data(e, encKey) ==
  /\ DecryptsSecret(e, encKey)
  /\ secret' = [secret EXCEPT ![e] = encKey]
  /\ UNCHANGED <<life, ra, ga, gb>>

(***************************************************************************)
(* What cleanUP does to the enclave: enclave_ra_close (when a context was  *)
(* ever opened) and sgx_destroy_enclave.  Closing works while the enclave  *)
(* is live and its context open; destroying an id that is no enclave does  *)
(* nothing.                                                                *)
(***************************************************************************)
(* Mutant: the wrong id is closed and destroyed, one that is no enclave.   *)
CloseAndDestroy_WrongId(e, close) ==
  UNCHANGED <<life, ra, ga, gb, secret>>

CanClose(e) == Live(e) /\ ra[e] \in {"inited", "get_gaed", "proc_msg2ed"}

CloseAndDestroy(e, close) ==
  /\ life' = [f \in EnclaveIds |->
                IF f = e /\ life[f] # "unborn" THEN "destroyed" ELSE life[f]]
  /\ ra' = [f \in EnclaveIds |->
              IF f = e /\ close /\ CanClose(e) THEN "closed" ELSE ra[f]]
  /\ secret' = [f \in EnclaveIds |-> IF f = e THEN NoSecret ELSE secret[f]]
  /\ UNCHANGED <<ga, gb>>

(* A power transition: the EPC contents of every live enclave are gone.    *)
PowerTransition ==
  /\ \E e \in EnclaveIds : Live(e)
  /\ life' = [e \in EnclaveIds |-> IF Live(e) THEN "lost" ELSE life[e]]
  /\ secret' = [e \in EnclaveIds |-> IF Live(e) THEN NoSecret ELSE secret[e]]
  /\ UNCHANGED <<ra, ga, gb>>

=============================================================================
