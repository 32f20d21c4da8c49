------------------------------ MODULE IsvMain ------------------------------
(***************************************************************************)
(* isv_app.cpp as a program of its own: main() runs one attestation with   *)
(* the functions the JNI functions were copied from, against the same      *)
(* enclave and provider.  It differs from call_RA_SIM (RemoteAttestation)  *)
(* in three ways: main assigns every code to the GLOBAL ret, which         *)
(* verifyMSG2 and verifyMSG3_and_PutINEnclave read; requests are sent by   *)
(* send_ToServer_ra, which cleans nothing up; and a refused MSG3 is looked *)
(* at before the result is.  A step whose text is the same is the action   *)
(* of RemoteAttestation; gret is main's ret, and jret is not used.         *)
(***************************************************************************)
EXTENDS RemoteAttestation

(* The process starts, and its thread moves from one step to another.      *)
main ==
  /\ pc = "idle" /\ round = 0
  /\ pc' = "config"
  /\ round' = 1
  /\ UNCHANGED <<jret, gret, enclave_id, context, lostLeft, busy_retry_time, verdict,
                 undef, waitKey, accepted, failedStep, prevId, faults, memVars, spVars,
                 enclaveVars>>

MainGoto(from, to) == Goto(from, to) /\ UNCHANGED <<jret, lostLeft>>

(***************************************************************************)
(* cleanUP in a function with a local ret of its own: what it leaves in    *)
(* the global is overwritten when the function returns.                    *)
(***************************************************************************)
CleanUPLocal ==
  /\ CloseAndDestroy(enclave_id, context)
  /\ undef' = (undef \/ DoubleFree(ptr, 1))
  /\ waitKey' = TRUE
  /\ ptr' = AfterCleanUP(ptr)

NoCleanUPLocal == UNCHANGED <<enclaveVars, undef, waitKey>>

(* Mutant: a failed SDK call leaves the group id 0, which is sent.         *)
MainConfig_GoesOn ==
  /\ MainGoto("config", "create")
  /\ \/ /\ "sdk" \in faults
        /\ gret' = "error" /\ failedStep' = TRUE /\ m0' = 0
     \/ \E gid \in Gids : gret' = "ok" /\ m0' = gid /\ UNCHANGED failedStep
  /\ ptr' = [ptr EXCEPT !["p_msg0_full"] = "live"]
  /\ NoCleanUPLocal
  /\ UNCHANGED <<enclave_id, context, busy_retry_time, accepted, m1, m2, m3, att, spVars>>

(* A failed SDK call returns early, without a MSG0.                        *)
MainConfig ==
  /\ MainGoto("config", "create")
  /\ \/ /\ "sdk" \in faults
        /\ gret' = "error" /\ failedStep' = TRUE
        /\ UNCHANGED memVars
     \/ \E gid \in Gids :
          /\ gret' = "ok" /\ m0' = gid
          /\ ptr' = [ptr EXCEPT !["p_msg0_full"] = "live"]
          /\ UNCHANGED <<failedStep, m1, m2, m3, att>>
  /\ NoCleanUPLocal
  /\ UNCHANGED <<enclave_id, context, busy_retry_time, accepted, spVars>>

(***************************************************************************)
(* func_init_enclave_ra: its code hides that of config_extended_ID.        *)
(***************************************************************************)
MainInitRa ==
  /\ MainGoto("init_ra", "msg0")
  /\ \/ /\ enclave_init_ra(enclave_id)
        /\ context' = TRUE /\ gret' = "ok"
        /\ UNCHANGED <<undef, waitKey, ptr, failedStep>>
     \/ /\ MayFail(Live(enclave_id))
        /\ ~(enclave_id \in EnclaveIds /\ life[enclave_id] = "lost" /\ lostLeft > 0)
        /\ CleanUPLocal
        /\ gret' = "error" /\ failedStep' = TRUE
        /\ UNCHANGED context
  /\ UNCHANGED <<enclave_id, busy_retry_time, accepted, m0, m1, m2, m3, att, spVars>>

MainInitEnclave == CreateEnclave \/ RetryLostEnclave \/ MainInitRa

(* send_MSG0 sends nothing: it cleans up after its caller's failure.       *)
MainMsg0 ==
  /\ MainGoto("msg0", "send0")
  /\ IF gret = "ok" THEN NoCleanUPLocal /\ UNCHANGED ptr ELSE CleanUPLocal
  /\ UNCHANGED <<gret, enclave_id, context, busy_retry_time, accepted, failedStep, m0,
                 m1, m2, m3, att, spVars>>

----------------------------------------------------------------------------
(***************************************************************************)
(* send_ToServer_ra hands a request to the provider; a null pointer is     *)
(* refused before it gets there.  The code becomes ret.                    *)
(***************************************************************************)
Refuse ==
  /\ spRet' = "SP_FAILED"
  /\ UNCHANGED <<g_is_sp_registered, g_sp_gid, g_sp_db, gbCount, sent, issued>>

ToServer(from, to) ==
  /\ MainGoto(from, to)
  /\ gret' = CodeOf(spRet')
  /\ failedStep' = (failedStep \/ (from # "send3" /\ spRet' # "SP_OK"))
  /\ NoCleanUPLocal
  /\ UNCHANGED <<enclave_id, context, busy_retry_time, m0, m1, m3>>

ToServerMsg0 ==
  /\ IF ptr["p_msg0_full"] = "live" THEN sp_ra_proc_msg0_req(m0) ELSE Refuse
  /\ ToServer("send0", "msg1")
  /\ UNCHANGED <<accepted, ptr, m2, att>>

ToServerMsg1 ==
  /\ \/ /\ ptr["p_msg1_full"] = "live"
        /\ Msg1Succeeds(m1)
        /\ ptr' = [ptr EXCEPT !["p_msg2_full"] = "live"]
        /\ m2' = Msg2For(g_sp_db')
     \/ /\ \/ ptr["p_msg1_full"] = "null" /\ Refuse
           \/ /\ ptr["p_msg1_full"] = "live"
              /\ \/ "sp" \in faults /\ \E done \in Msg1Steps : Msg1Fails(m1, done)
                 \/ Msg1Unregistered
        /\ UNCHANGED <<ptr, m2>>
  /\ ToServer("send1", "verify2")
  /\ UNCHANGED <<accepted, att>>

ToServerMsg3 ==
  /\ \E fault \in (IF "sp" \in faults THEN Msg3Faults ELSE {"none"}) :
       sp_ra_proc_msg3_req(m3, fault)
  /\ ToServer("send3", "verify_mac")
  /\ IF spRet' = "SP_OK"
       THEN /\ accepted' = TRUE /\ att' = AttResult
            /\ ptr' = [ptr EXCEPT !["p_att_result_msg_full"] = "live"]
       ELSE UNCHANGED <<accepted, att, ptr>>
  /\ UNCHANGED m2

----------------------------------------------------------------------------
(***************************************************************************)
(* send_MSG1, verifyMSG2 and send_MSG3 step for step as in the JNI         *)
(* functions.  The codes the two senders return are overwritten by         *)
(* send_ToServer_ra before anybody reads them.                             *)
(***************************************************************************)
MainMsg1 == AllocMsg1 \/ GetMsg1Busy \/ GetMsg1 \/ GetMsg1Fails

MainVerifyMSG2 == verifyMSG2

MainMsg3 == StartMsg3 \/ NullMsg2 \/ ProcMsg2Busy \/ ProcMsg2 \/ ProcMsg2Fails

(***************************************************************************)
(* verifyMSG3_and_PutINEnclave: a refused MSG3 has no result message.      *)
(* cleanUP runs, and then the null pointer is read.                        *)
(***************************************************************************)
NoAttResult ==
  /\ gret # "ok" \/ ptr["p_att_result_msg_full"] = "null"
  /\ MainGoto("verify_mac", "null_write")
  /\ cleanUP(1, ptr, "error")
  /\ ptr' = AfterCleanUP(ptr)
  /\ UNCHANGED <<enclave_id, context, busy_retry_time, accepted, failedStep, m0, m1, m2,
                 m3, att, spVars>>

VerifyAttResult == gret = "ok" /\ VerifyMac

MainPutSecret == PutSecret

(* main returns ret.                                                       *)
MainExit ==
  /\ pc = "report" /\ ~waitKey
  /\ pc' = "stopped"
  /\ verdict' = IF gret = "ok" THEN "Success" ELSE "Failed"
  /\ UNCHANGED <<round, jret, gret, enclave_id, context, lostLeft, busy_retry_time,
                 undef, waitKey, accepted, failedStep, prevId, faults, memVars, spVars,
                 enclaveVars>>

MainStep ==
  \/ MainConfig \/ MainInitEnclave
  \/ MainMsg0 \/ ToServerMsg0
  \/ MainMsg1 \/ ToServerMsg1 \/ MainVerifyMSG2
  \/ MainMsg3 \/ ToServerMsg3
  \/ NoAttResult \/ VerifyAttResult \/ MainPutSecret
  \/ NullWrite \/ MainExit

MainNext ==
  main \/ MainStep \/ PressKey \/ OutOfMemory \/ UndefinedAbort \/ PowerLoss

(* The thread keeps running, and somebody presses the key cleanUP waits for. *)
MainSpec ==
  Init /\ [][MainNext]_vars /\ WF_vars(MainStep) /\ WF_vars(PressKey)

----------------------------------------------------------------------------
(***************************************************************************)
(* What main's exit code tells.  0: the provider accepted the evidence of  *)
(* the very enclave main holds, and that enclave either has the secret of  *)
(* this exchange or is no more.  Not 0: the enclave is no more, and no     *)
(* secret is left in it.  No exit code at all: something did go wrong, or   *)
(* the group is not supported.                                             *)
(***************************************************************************)
ExitTellsOutcome ==
  /\ pc = "stopped" /\ verdict = "Success" =>
       /\ accepted /\ <<enclave_id, gbCount>> = KeysOf(enclave_id)
       /\ secret[enclave_id] = KeysOf(enclave_id) \/ ~Live(enclave_id)
  /\ pc = "stopped" /\ verdict = "Failed" => ~Live(enclave_id)
  /\ pc = "dead" => faults # {} \/ m0 \notin SupportedGids

(***************************************************************************)
(* main goes on after every failure, with an enclave cleanUP has destroyed *)
(* and pointers it has freed.  Still the provider accepts only evidence of *)
(* a process in which every call so far has worked, and every code was 0:  *)
(* here also that of config_extended_ID, which the next function hides.    *)
(***************************************************************************)
AcceptedOnlyFlawless == accepted => ~failedStep /\ <<enclave_id, gbCount>> \in sent

(***************************************************************************)
(* With the console attended main ends, by an exit or by its death.        *)
(***************************************************************************)
MainEnds == (pc = "config") ~> (pc \in {"stopped", "dead"})
=============================================================================
