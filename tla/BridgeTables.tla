---------------------------- MODULE BridgeTables ----------------------------
(***************************************************************************)
(* What sgx_edger8r generated from the .edl files, as tables: for every    *)
(* ECALL and OCALL its pointer parameters in order, with what the bridge   *)
(* does for each, and whether the function returns a value; and for every  *)
(* enclave the four numberings that have to agree.  Parameters passed by   *)
(* value are copied with the marshalling struct and are left out.          *)
(***************************************************************************)
EXTENDS Sequences

Fn(name, ptrs, returns) == [name |-> name, ptrs |-> ptrs, returns |-> returns]

----------------------------------------------------------------------------
(* ECALLs of the attestation enclave.                                      *)
sgx_enclave_init_ra == Fn("enclave_init_ra", <<"out">>, TRUE)
sgx_enclave_ra_close == Fn("enclave_ra_close", <<>>, TRUE)
sgx_verify_att_result_mac == Fn("verify_att_result_mac", <<"in", "in">>, TRUE)
sgx_put_secret_data == Fn("put_secret_data", <<"in", "in">>, TRUE)
sgx_sgx_ra_get_ga == Fn("sgx_ra_get_ga", <<"out">>, TRUE)
sgx_sgx_ra_proc_msg2_trusted ==
  Fn("sgx_ra_proc_msg2_trusted", <<"in", "in", "out", "out">>, TRUE)
sgx_sgx_ra_get_msg3_trusted == Fn("sgx_ra_get_msg3_trusted", <<"in", "user_check">>, TRUE)

isv_ecall_table ==
  <<sgx_enclave_init_ra, sgx_enclave_ra_close, sgx_verify_att_result_mac,
    sgx_put_secret_data, sgx_sgx_ra_get_ga, sgx_sgx_ra_proc_msg2_trusted,
    sgx_sgx_ra_get_msg3_trusted>>

(* Mutant: the host's proxies are those of an older .edl file.             *)
isv_proxies_Old ==
  <<"enclave_init_ra", "enclave_ra_close", "put_secret_data", "verify_att_result_mac",
    "sgx_ra_get_ga", "sgx_ra_proc_msg2_trusted", "sgx_ra_get_msg3_trusted">>

(* The proxies on the host's side, in the order of the numbers they pass.  *)
isv_proxies ==
  <<"enclave_init_ra", "enclave_ra_close", "verify_att_result_mac", "put_secret_data",
    "sgx_ra_get_ga", "sgx_ra_proc_msg2_trusted", "sgx_ra_get_msg3_trusted">>

(* Its OCALLs, in the order of the numbers the stubs pass.                 *)
create_session_ocall == Fn("create_session_ocall", <<"out", "out">>, TRUE)
exchange_report_ocall == Fn("exchange_report_ocall", <<"in", "out">>, TRUE)
close_session_ocall == Fn("close_session_ocall", <<>>, TRUE)
invoke_service_ocall == Fn("invoke_service_ocall", <<"in", "out">>, TRUE)
sgx_oc_cpuidex == Fn("sgx_oc_cpuidex", <<"inout">>, FALSE)
sgx_thread_wait_untrusted_event_ocall ==
  Fn("sgx_thread_wait_untrusted_event_ocall", <<"user_check">>, TRUE)
sgx_thread_set_untrusted_event_ocall ==
  Fn("sgx_thread_set_untrusted_event_ocall", <<"user_check">>, TRUE)
sgx_thread_setwait_untrusted_events_ocall ==
  Fn("sgx_thread_setwait_untrusted_events_ocall", <<"user_check", "user_check">>, TRUE)
sgx_thread_set_multiple_untrusted_events_ocall ==
  Fn("sgx_thread_set_multiple_untrusted_events_ocall", <<"in">>, TRUE)

isv_stubs ==
  <<create_session_ocall, exchange_report_ocall, close_session_ocall,
    invoke_service_ocall, sgx_oc_cpuidex, sgx_thread_wait_untrusted_event_ocall,
    sgx_thread_set_untrusted_event_ocall, sgx_thread_setwait_untrusted_events_ocall,
    sgx_thread_set_multiple_untrusted_events_ocall>>

(* The host's table of handlers.                                           *)
ocall_table_isv_enclave ==
  <<"create_session_ocall", "exchange_report_ocall", "close_session_ocall",
    "invoke_service_ocall", "sgx_oc_cpuidex", "sgx_thread_wait_untrusted_event_ocall",
    "sgx_thread_set_untrusted_event_ocall", "sgx_thread_setwait_untrusted_events_ocall",
    "sgx_thread_set_multiple_untrusted_events_ocall">>

----------------------------------------------------------------------------
(* The arithmetic enclave.                                                 *)
sgx_ecall_Arith_Core_sample == Fn("ecall_Arith_Core_sample", <<>>, TRUE)
sgx_ecall_Arith_Core == Fn("ecall_Arith_Core", <<"in", "out">>, TRUE)
sgx_ecall_add == Fn("ecall_add", <<>>, TRUE)
sgx_ecall_encrypt == Fn("ecall_encrypt", <<"in", "out">>, FALSE)
sgx_ecall_decrypt == Fn("ecall_decrypt", <<"in", "out">>, FALSE)
sgx_ecall_add_enc == Fn("ecall_add_enc", <<"in", "in", "out">>, FALSE)

arith_ecall_table ==
  <<sgx_ecall_Arith_Core_sample, sgx_ecall_Arith_Core, sgx_ecall_add,
    sgx_ecall_encrypt, sgx_ecall_decrypt, sgx_ecall_add_enc>>

arith_proxies ==
  <<"ecall_Arith_Core_sample", "ecall_Arith_Core", "ecall_add", "ecall_encrypt",
    "ecall_decrypt", "ecall_add_enc">>

ocall_Arith_Core_sample == Fn("ocall_Arith_Core_sample", <<"in">>, FALSE)
arith_stubs == <<ocall_Arith_Core_sample>>
ocall_table_Arith_Core == <<"ocall_Arith_Core_sample">>

----------------------------------------------------------------------------
(* The arithmetic enclave of SGX_Evaluator, an earlier version.            *)
evaluator_ecall_Arith_Core_sample == Fn("ecall_Arith_Core_sample", <<>>, TRUE)
evaluator_ecall_Arith_Core == Fn("ecall_Arith_Core", <<"in", "out">>, TRUE)

evaluator_ecall_table ==
  <<evaluator_ecall_Arith_Core_sample, evaluator_ecall_Arith_Core>>

evaluator_proxies == <<"ecall_Arith_Core_sample", "ecall_Arith_Core">>

evaluator_ocall_Arith_Core_sample == Fn("ocall_Arith_Core_sample", <<"in">>, FALSE)
evaluator_stubs == <<evaluator_ocall_Arith_Core_sample>>
evaluator_ocall_table == <<"ocall_Arith_Core_sample">>

----------------------------------------------------------------------------
(* For every enclave: its ECALLs and the host's proxies, its OCALL stubs   *)
(* and the host's handlers.                                                *)
AllBridges ==
  {[ecalls |-> isv_ecall_table, proxies |-> isv_proxies,
    stubs |-> isv_stubs, handlers |-> ocall_table_isv_enclave],
   [ecalls |-> arith_ecall_table, proxies |-> arith_proxies,
    stubs |-> arith_stubs, handlers |-> ocall_table_Arith_Core],
   [ecalls |-> evaluator_ecall_table, proxies |-> evaluator_proxies,
    stubs |-> evaluator_stubs, handlers |-> evaluator_ocall_table]}
=============================================================================
