------------------------- MODULE RemoteAttestation -------------------------
(***************************************************************************)
(* Remote attestation as the server performs it: Java_Main.call_RA_SIM     *)
(* calls the seven JNI functions of isv_app.cpp in turn, and these drive   *)
(* an attestation enclave (IsvEnclave) and the provider (ServiceProvider), *)
(* both in the same process.  One thread runs all of it, so a step is the  *)
(* code between two calls that leave it (an ECALL, a call of the SDK, a    *)
(* request to the provider); only a power transition falls in between.     *)
(*                                                                         *)
(* The globals of isv_app.cpp survive from one challenge to the next:      *)
(* message buffers that are freed without being set to NULL, the key       *)
(* context, the enclave id, the retry counter and a return code that most  *)
(* of the JNI functions shadow with a local of the same name.              *)
(***************************************************************************)
EXTENDS Integers, ServiceProvider, IsvEnclave

CONSTANTS
  MaxRounds,   \* bound: challenges the server answers
  FaultSets    \* what may go wrong in a run: sets of FaultKinds

FaultKinds == {"sdk", "busy", "sp", "power", "alloc"}

ASSUME RoundsAssumption == MaxRounds \in Nat
ASSUME FaultsAssumption == FaultSets \subseteq SUBSET FaultKinds
ASSUME KeyNames == GaKeys = EnclaveIds

VARIABLES
  pc,          \* next step of the server's thread
  round,       \* challenges started so far
  jret,        \* call_RA_SIM's variable ret
  gret,        \* the global ret, read and written by verifyMSG2, cleanUP ...
  enclave_id,  \* 0 until the first enclave is created
  context,     \* TRUE once context # INT_MAX; never reset
  lostLeft,    \* enclave_lost_retry_time, a parameter of func_init_enclave_ra
  busy_retry_time,
  ptr,         \* the global buffer pointers: null, live or freed (dangling)
  m0, m1, m2, m3, att,   \* contents last written to the buffers
  verdict,     \* what call_RA_SIM returned last
  undef,       \* undefined behaviour has happened in this process
  waitKey,     \* cleanUP waits in getchar() for a key on the console
  accepted,    \* history: the provider accepted this challenge's MSG3
  failedStep,  \* history: a call of this challenge after config_extended_ID failed
  prevId,      \* history: enclave_id when this challenge began
  faults       \* what may go wrong in this run

appVars == <<pc, round, jret, gret, enclave_id, context, lostLeft,
             busy_retry_time, verdict, undef, waitKey, accepted, failedStep, prevId,
             faults>>
memVars == <<ptr, m0, m1, m2, m3, att>>
vars == <<spVars, enclaveVars, appVars, memVars>>

Buffers == {"p_msg0_full", "p_msg1_full", "p_msg2_full", "p_msg3",
            "p_msg3_full", "p_att_result_msg_full"}

(* The provider's buffers: cleanUP frees them and keeps the pointers.      *)
Responses == {"p_msg2_full", "p_att_result_msg_full"}

Steps == {"idle", "config", "create", "init_ra", "msg0", "send0", "msg1", "get_msg1",
          "send1", "verify2", "msg3", "proc_msg2", "send3", "verify_mac",
          "put_secret", "report", "null_write", "stopped", "dead"}

Codes == {"ok", "error"}

NoMsg2 == Msg2For(NoSession)
NoAtt == [mk |-> NoKey, sk |-> NoKey]

Init ==
  /\ SpInit /\ EnclaveInit
  /\ pc = "idle" /\ round = 0
  /\ jret = "ok" /\ gret = "ok"
  /\ enclave_id = 0 /\ context = FALSE
  /\ lostLeft = 1 /\ busy_retry_time = 4
  /\ ptr = [b \in Buffers |-> "null"]
  /\ m0 \in Gids /\ m1 = 0 /\ m2 = NoMsg2 /\ m3 = NoMsg3 /\ att = NoAtt
  /\ verdict = "none" /\ undef = FALSE /\ waitKey = FALSE
  /\ accepted = FALSE /\ failedStep = FALSE /\ prevId = 0
  /\ faults \in FaultSets

(***************************************************************************)
(* The thread moves from one step to another, unless it waits for a key.   *)
(***************************************************************************)
Goto(from, to) ==
  /\ pc = from /\ ~waitKey
  /\ pc' = to
  /\ UNCHANGED <<round, verdict, prevId, faults>>

(* A call of the SDK that could succeed may still fail.                    *)
MayFail(possible) == "sdk" \in faults \/ ~possible

(***************************************************************************)
(* n calls of cleanUP in a row, from pointers p and the global code g.     *)
(* A failure to close the context leaves -1 in the global code; it is sure *)
(* to fail the second time, as the enclave is gone.  Freeing a dangling    *)
(* pointer is undefined.  Each call waits for a key: one wait stands for   *)
(* the n of them.                                                          *)
(***************************************************************************)
AfterCleanUP(p) ==
  [b \in Buffers |-> IF b \in Responses /\ p[b] # "null" THEN "freed" ELSE "null"]

DoubleFree(p, n) ==
  \E b \in Responses : p[b] = "freed" \/ (n > 1 /\ p[b] = "live")

cleanUP(n, p, g) ==
  /\ CloseAndDestroy(enclave_id, context)
  /\ \/ gret' = g /\ (context => n = 1 /\ CanClose(enclave_id))
     \/ gret' = "error" /\ context /\ MayFail(n = 1 /\ CanClose(enclave_id))
  /\ undef' = (undef \/ DoubleFree(p, n))
  /\ waitKey' = TRUE

(* Mutant: the code of a refused request is lost.                          *)
CodeOf_Lost(r) == "ok"

(* What the JNI function returns for the code of a request.                *)
CodeOf(r) == IF r = "SP_OK" THEN "ok" ELSE "error"

NoCleanUP == UNCHANGED <<enclaveVars, gret, undef, waitKey>>

----------------------------------------------------------------------------
(* Server.java receives "Challenge" and calls call_RA_SIM.                 *)
call_RA_SIM ==
  /\ pc = "idle" /\ round < MaxRounds
  /\ pc' = "config"
  /\ round' = round + 1
  /\ jret' = "ok" /\ verdict' = "none"
  /\ accepted' = FALSE /\ failedStep' = FALSE /\ prevId' = enclave_id
  /\ UNCHANGED <<gret, enclave_id, context, lostLeft, busy_retry_time, undef,
                 waitKey, faults, memVars, spVars, enclaveVars>>

(***************************************************************************)
(* config_extended_ID: a failure of the SDK call returns early and leaves  *)
(* p_msg0_full as it was, else a new MSG0 is allocated and filled in.      *)
(***************************************************************************)
config_extended_ID ==
  /\ Goto("config", "create")
  /\ lostLeft' = 1
  /\ \/ /\ "sdk" \in faults
        /\ jret' = "error"
        /\ UNCHANGED memVars
     \/ \E gid \in Gids :
          /\ jret' = "ok"
          /\ ptr' = [ptr EXCEPT !["p_msg0_full"] = "live"]
          /\ m0' = gid
          /\ UNCHANGED <<m1, m2, m3, att>>
  /\ NoCleanUP
  /\ UNCHANGED <<enclave_id, context, busy_retry_time, accepted, failedStep, spVars>>

(***************************************************************************)
(* func_init_enclave_ra, first half of its loop: create an enclave.  When  *)
(* that fails, cleanUP runs on the id of an earlier enclave (or on 0), and *)
(* the function goes on as if it had succeeded.                            *)
(***************************************************************************)
CreateEnclave ==
  /\ Goto("create", "init_ra")
  /\ \/ /\ \E e \in EnclaveIds : sgx_create_enclave(e) /\ enclave_id' = e
        /\ UNCHANGED <<gret, undef, waitKey, ptr, failedStep>>
     \/ /\ "sdk" \in faults
        /\ cleanUP(1, ptr, gret)
        /\ ptr' = AfterCleanUP(ptr)
        /\ failedStep' = TRUE
        /\ UNCHANGED enclave_id
  /\ UNCHANGED <<jret, context, lostLeft, busy_retry_time, accepted, m0, m1, m2, m3,
                 att, spVars>>

(* Second half: SGX_ERROR_ENCLAVE_LOST goes round the loop once more.      *)
RetryLostEnclave ==
  /\ Goto("init_ra", "create")
  /\ enclave_id \in EnclaveIds /\ life[enclave_id] = "lost"
  /\ lostLeft > 0
  /\ lostLeft' = lostLeft - 1
  /\ NoCleanUP
  /\ UNCHANGED <<jret, enclave_id, context, busy_retry_time, accepted, failedStep,
                 memVars, spVars>>

InitRa ==
  /\ Goto("init_ra", "msg0")
  /\ \/ /\ enclave_init_ra(enclave_id)
        /\ context' = TRUE /\ jret' = "ok"
        /\ UNCHANGED <<gret, undef, waitKey, ptr, failedStep>>
     \/ /\ MayFail(Live(enclave_id))
        /\ ~(enclave_id \in EnclaveIds /\ life[enclave_id] = "lost" /\ lostLeft > 0)
        /\ cleanUP(1, ptr, gret)
        /\ ptr' = AfterCleanUP(ptr)
        /\ jret' = "error" /\ failedStep' = TRUE
        /\ UNCHANGED context
  /\ UNCHANGED <<enclave_id, lostLeft, busy_retry_time, accepted, m0, m1, m2, m3, att,
                 spVars>>

----------------------------------------------------------------------------
(***************************************************************************)
(* send_MSG0.  Its return code replaces the one the earlier functions      *)
(* left; a null p_msg0_full makes ra_network_send_receive return -1.       *)
(***************************************************************************)
send_MSG0 ==
  /\ Goto("msg0", "msg1")
  /\ IF ptr["p_msg0_full"] = "live"
       THEN sp_ra_proc_msg0_req(m0)
       ELSE spRet' = "SP_FAILED"
            /\ UNCHANGED <<g_is_sp_registered, g_sp_gid, g_sp_db, gbCount, sent, issued>>
  /\ jret' = CodeOf(spRet')
  /\ IF spRet' = "SP_OK"
       THEN NoCleanUP /\ UNCHANGED <<ptr, failedStep>>
       ELSE /\ failedStep' = TRUE
            /\ cleanUP(1, ptr, gret)
            /\ ptr' = AfterCleanUP(ptr)
  /\ UNCHANGED <<enclave_id, context, lostLeft, busy_retry_time, accepted, m0, m1, m2,
                 m3, att>>

----------------------------------------------------------------------------
(* send_MSG1: allocate MSG1 ...                                            *)
AllocMsg1 ==
  /\ Goto("msg1", "get_msg1")
  /\ ptr' = [ptr EXCEPT !["p_msg1_full"] = "live"]
  /\ NoCleanUP
  /\ UNCHANGED <<jret, enclave_id, context, lostLeft, busy_retry_time, accepted,
                 failedStep, m0, m1, m2, m3, att, spVars>>

(* Mutants: one retry too many, and a counter refilled when it is used up. *)
GetMsg1Busy_OffByOne ==
  /\ "busy" \in faults
  /\ busy_retry_time >= 0
  /\ Goto("get_msg1", "get_msg1")
  /\ busy_retry_time' = busy_retry_time - 1
  /\ NoCleanUP
  /\ UNCHANGED <<jret, enclave_id, context, lostLeft, accepted, failedStep, memVars,
                 spVars>>

GetMsg1Busy_Refill ==
  /\ "busy" \in faults
  /\ Goto("get_msg1", "get_msg1")
  /\ busy_retry_time' = IF busy_retry_time = 0 THEN 4 ELSE busy_retry_time - 1
  /\ NoCleanUP
  /\ UNCHANGED <<jret, enclave_id, context, lostLeft, accepted, failedStep, memVars,
                 spVars>>

(***************************************************************************)
(* ... ask the SDK for it, again while it is busy and the counter, left by *)
(* whoever used it last, is not 0 (the test also decrements it) ...        *)
(***************************************************************************)
GetMsg1Busy ==
  /\ "busy" \in faults
  /\ busy_retry_time # 0
  /\ Goto("get_msg1", "get_msg1")
  /\ busy_retry_time' = busy_retry_time - 1
  /\ NoCleanUP
  /\ UNCHANGED <<jret, enclave_id, context, lostLeft, accepted, failedStep, memVars,
                 spVars>>

GetMsg1 ==
  /\ Goto("get_msg1", "send1")
  /\ sgx_ra_get_msg1(enclave_id)
  /\ m1' = enclave_id
  /\ UNCHANGED <<jret, gret, enclave_id, context, lostLeft, busy_retry_time, undef,
                 waitKey, accepted, failedStep, ptr, m0, m2, m3, att, spVars>>

(* The last BUSY leaves the counter at -1; any other error leaves it alone. *)
GetMsg1Fails ==
  /\ Goto("get_msg1", "send1")
  /\ \/ /\ "busy" \in faults /\ busy_retry_time = 0
        /\ busy_retry_time' = -1
     \/ /\ MayFail(CanGetMsg1(enclave_id))
        /\ UNCHANGED busy_retry_time
  /\ cleanUP(1, ptr, gret)
  /\ ptr' = AfterCleanUP(ptr)
  /\ failedStep' = TRUE
  /\ UNCHANGED <<jret, enclave_id, context, lostLeft, accepted, m0, m1, m2, m3, att,
                 spVars>>

(***************************************************************************)
(* ... and send it.  The code of the SDK call is replaced by the code of   *)
(* the request, and call_RA_SIM drops that one: jret keeps MSG0's code.    *)
(***************************************************************************)
SendMsg1 ==
  /\ Goto("send1", "verify2")
  /\ \/ /\ ptr["p_msg1_full"] = "null"
        /\ failedStep' = TRUE
        /\ UNCHANGED <<ptr, m2, spVars>>
     \/ /\ ptr["p_msg1_full"] = "live"
        /\ \/ /\ Msg1Succeeds(m1)
              /\ ptr' = [ptr EXCEPT !["p_msg2_full"] = "live"]
              /\ m2' = Msg2For(g_sp_db')
              /\ UNCHANGED failedStep
           \/ /\ "sp" \in faults
              /\ \E done \in Msg1Steps : Msg1Fails(m1, done)
              /\ failedStep' = TRUE
              /\ UNCHANGED <<ptr, m2>>
           \/ /\ Msg1Unregistered
              /\ failedStep' = TRUE
              /\ UNCHANGED <<ptr, m2>>
  /\ NoCleanUP
  /\ UNCHANGED <<jret, enclave_id, context, lostLeft, busy_retry_time, accepted, m0, m1,
                 m3, att>>

(* Mutant: only the pointer is looked at.                                  *)
verifyMSG2_NoCode ==
  /\ Goto("verify2", "msg3")
  /\ \/ /\ ptr["p_msg2_full"] = "live"
        /\ NoCleanUP /\ UNCHANGED ptr
     \/ /\ ptr["p_msg2_full"] = "null"
        /\ cleanUP(1, ptr, gret)
        /\ ptr' = AfterCleanUP(ptr)
     \/ /\ ptr["p_msg2_full"] = "freed"
        /\ undef' = TRUE
        /\ UNCHANGED <<enclaveVars, gret, waitKey, ptr>>
  /\ UNCHANGED <<jret, enclave_id, context, lostLeft, busy_retry_time, accepted,
                 failedStep, m0, m1, m2, m3, att, spVars>>

(***************************************************************************)
(* verifyMSG2 looks at the GLOBAL code, which no request of this challenge *)
(* has written, and at the pointer.  Reading a dangling MSG2 is undefined: *)
(* its type may look right or wrong.                                       *)
(***************************************************************************)
verifyMSG2 ==
  /\ Goto("verify2", "msg3")
  /\ \/ /\ gret = "ok" /\ ptr["p_msg2_full"] = "live"
        /\ NoCleanUP /\ UNCHANGED ptr
     \/ /\ gret # "ok" \/ ptr["p_msg2_full"] = "null"
        /\ cleanUP(1, ptr, gret)
        /\ ptr' = AfterCleanUP(ptr)
     \/ /\ gret = "ok" /\ ptr["p_msg2_full"] = "freed"
        /\ undef' = TRUE
        /\ UNCHANGED <<enclaveVars, gret, waitKey, ptr>>
     \/ /\ gret = "ok" /\ ptr["p_msg2_full"] = "freed"
        /\ cleanUP(1, ptr, gret)
        /\ ptr' = AfterCleanUP(ptr)
  /\ UNCHANGED <<jret, enclave_id, context, lostLeft, busy_retry_time, accepted,
                 failedStep, m0, m1, m2, m3, att, spVars>>

----------------------------------------------------------------------------
(* send_MSG3: reset the retry counter; a null MSG2 is dereferenced.        *)
StartMsg3 ==
  /\ ptr["p_msg2_full"] # "null"
  /\ Goto("msg3", "proc_msg2")
  /\ busy_retry_time' = 2
  /\ undef' = (undef \/ ptr["p_msg2_full"] = "freed")
  /\ UNCHANGED <<enclaveVars, gret, waitKey, jret, enclave_id, context, lostLeft,
                 accepted, failedStep, memVars, spVars>>

NullMsg2 ==
  /\ ptr["p_msg2_full"] = "null"
  /\ Goto("msg3", "dead")
  /\ NoCleanUP
  /\ UNCHANGED <<jret, enclave_id, context, lostLeft, busy_retry_time, accepted,
                 failedStep, memVars, spVars>>

ProcMsg2Busy ==
  /\ "busy" \in faults
  /\ busy_retry_time # 0
  /\ Goto("proc_msg2", "proc_msg2")
  /\ busy_retry_time' = busy_retry_time - 1
  /\ NoCleanUP
  /\ UNCHANGED <<jret, enclave_id, context, lostLeft, accepted, failedStep, memVars,
                 spVars>>

(* MSG3 is generated and copied into a request of its own.                 *)
ProcMsg2 ==
  /\ Goto("proc_msg2", "send3")
  /\ sgx_ra_proc_msg2(enclave_id, m2)
  /\ ptr' = [ptr EXCEPT !["p_msg3"] = "live", !["p_msg3_full"] = "live"]
  /\ m3' = Msg3For(ga[enclave_id], m2.gb)
  /\ UNCHANGED <<gret, undef, waitKey, jret, enclave_id, context, lostLeft,
                 busy_retry_time, accepted, failedStep, m0, m1, m2, att, spVars>>

(***************************************************************************)
(* No MSG3.  With p_msg3 null, as on a first challenge, cleanUP runs twice *)
(* in a row.  Then the function goes on and prepares an empty MSG3.        *)
(***************************************************************************)
ProcMsg2Fails ==
  /\ Goto("proc_msg2", "send3")
  /\ \/ /\ "busy" \in faults /\ busy_retry_time = 0
        /\ busy_retry_time' = -1
     \/ /\ MayFail(AcceptsMsg2(enclave_id, m2))
        /\ UNCHANGED busy_retry_time
  /\ cleanUP(IF ptr["p_msg3"] = "null" THEN 2 ELSE 1, ptr, gret)
  /\ ptr' = [AfterCleanUP(ptr) EXCEPT !["p_msg3_full"] = "live"]
  /\ m3' = NoMsg3
  /\ failedStep' = TRUE
  /\ UNCHANGED <<jret, enclave_id, context, lostLeft, accepted, m0, m1, m2, att, spVars>>

(* The request's code becomes jret; on an error the stale                  *)
(* p_att_result_msg_full, if any, is freed with the rest.                  *)
SendMsg3 ==
  /\ Goto("send3", "verify_mac")
  /\ \E fault \in (IF "sp" \in faults THEN Msg3Faults ELSE {"none"}) :
       sp_ra_proc_msg3_req(m3, fault)
  /\ jret' = CodeOf(spRet')
  /\ IF spRet' = "SP_OK"
       THEN /\ accepted' = TRUE
            /\ ptr' = [ptr EXCEPT !["p_att_result_msg_full"] = "live"]
            /\ att' = AttResult
            /\ NoCleanUP
       ELSE /\ accepted' = accepted
            /\ cleanUP(1, ptr, gret)
            /\ ptr' = AfterCleanUP(ptr)
            /\ UNCHANGED att
  /\ UNCHANGED <<enclave_id, context, lostLeft, busy_retry_time, failedStep, m0, m1, m2,
                 m3>>

----------------------------------------------------------------------------
(***************************************************************************)
(* verifyMSG3_and_PutINEnclave reads the result message without looking at *)
(* the code of send_MSG3.  A null pointer is dereferenced.                 *)
(***************************************************************************)
NullAttResult ==
  /\ ptr["p_att_result_msg_full"] = "null"
  /\ Goto("verify_mac", "dead")
  /\ NoCleanUP
  /\ UNCHANGED <<jret, enclave_id, context, lostLeft, busy_retry_time, accepted,
                 failedStep, memVars, spVars>>

(* Mutant: a failed check is noted, and nothing is cleaned up.             *)
VerifyMac_NoCleanUP ==
  /\ ptr["p_att_result_msg_full"] = "live"
  /\ Goto("verify_mac", "put_secret")
  /\ \/ verify_att_result_mac(enclave_id, att.mk) /\ gret' = "ok"
     \/ MayFail(verify_att_result_mac(enclave_id, att.mk)) /\ gret' = "error"
  /\ UNCHANGED <<enclaveVars, undef, waitKey, ptr>>
  /\ UNCHANGED <<jret, enclave_id, context, lostLeft, busy_retry_time, accepted,
                 failedStep, m0, m1, m2, m3, att, spVars>>

VerifyMac ==
  /\ ptr["p_att_result_msg_full"] = "live"
  /\ Goto("verify_mac", "put_secret")
  /\ \/ /\ verify_att_result_mac(enclave_id, att.mk)
        /\ gret' = "ok"
        /\ UNCHANGED <<enclaveVars, undef, waitKey, ptr>>
     \/ /\ MayFail(verify_att_result_mac(enclave_id, att.mk))
        /\ cleanUP(1, ptr, "error")
        /\ ptr' = AfterCleanUP(ptr)
  /\ UNCHANGED <<jret, enclave_id, context, lostLeft, busy_retry_time, accepted,
                 failedStep, m0, m1, m2, m3, att, spVars>>

(* A dangling result: the type may look wrong, which costs one more        *)
(* cleanUP, and the MAC is then checked in an enclave that is gone.        *)
VerifyDangling ==
  /\ ptr["p_att_result_msg_full"] = "freed"
  /\ Goto("verify_mac", "put_secret")
  /\ \E n \in {1, 2} : cleanUP(n, ptr, "error")
  /\ ptr' = AfterCleanUP(ptr)
  /\ UNCHANGED <<jret, enclave_id, context, lostLeft, busy_retry_time, accepted,
                 failedStep, m0, m1, m2, m3, att, spVars>>

(* Mutant: a secret that cannot be decrypted is not cleaned up after.      *)
PutSecret_NoCleanUP ==
  /\ Goto("put_secret", "report")
  /\ \/ put_secret_data(enclave_id, att.sk) /\ gret' = "ok"
     \/ MayFail(DecryptsSecret(enclave_id, att.sk)) /\ gret' = "error" /\ UNCHANGED enclaveVars
  /\ UNCHANGED <<undef, waitKey, ptr>>
  /\ UNCHANGED <<jret, enclave_id, context, lostLeft, busy_retry_time, accepted,
                 failedStep, m0, m1, m2, m3, att, spVars>>

(***************************************************************************)
(* After a failed MAC check the function goes on: it reads the status of   *)
(* the (freed) result and may still try to store the secret.  A failing    *)
(* put_secret_data sets only the global code, to the code of the ECALL,    *)
(* which is SGX_SUCCESS when the error is the enclave function's own.      *)
(***************************************************************************)
PutSecret ==
  /\ Goto("put_secret", "report")
  /\ \/ /\ put_secret_data(enclave_id, att.sk)
        /\ gret' = "ok"
        /\ UNCHANGED <<undef, waitKey, ptr>>
     \/ /\ MayFail(DecryptsSecret(enclave_id, att.sk))
        /\ \E g \in Codes :
             /\ g = "ok" => Live(enclave_id)
             /\ cleanUP(1, ptr, g)
        /\ ptr' = AfterCleanUP(ptr)
     \/ /\ ptr["p_att_result_msg_full"] = "freed"
        /\ undef' = TRUE
        /\ UNCHANGED <<enclaveVars, gret, waitKey, ptr>>
  /\ UNCHANGED <<jret, enclave_id, context, lostLeft, busy_retry_time, accepted,
                 failedStep, m0, m1, m2, m3, att, spVars>>

(* Mutant: the server goes on serving after "Failed".                      *)
Report_KeepsServing ==
  /\ pc = "report" /\ ~waitKey
  /\ verdict' = IF jret = "ok" THEN "Success" ELSE "Failed"
  /\ pc' = "idle"
  /\ UNCHANGED <<round, jret, gret, enclave_id, context, lostLeft, busy_retry_time,
                 undef, waitKey, accepted, failedStep, prevId, faults, memVars, spVars,
                 enclaveVars>>

(* call_RA_SIM answers by the code of send_MSG3 alone; after "Failed" the  *)
(* server leaves its loop.                                                 *)
Report ==
  /\ pc = "report" /\ ~waitKey
  /\ verdict' = IF jret = "ok" THEN "Success" ELSE "Failed"
  /\ pc' = IF jret = "ok" THEN "idle" ELSE "stopped"
  /\ UNCHANGED <<round, jret, gret, enclave_id, context, lostLeft, busy_retry_time,
                 undef, waitKey, accepted, failedStep, prevId, faults, memVars, spVars,
                 enclaveVars>>

----------------------------------------------------------------------------
(* getchar() in cleanUP returns.                                           *)
PressKey ==
  /\ waitKey /\ pc # "dead"
  /\ waitKey' = FALSE
  /\ UNCHANGED <<pc, round, jret, gret, enclave_id, context, lostLeft, busy_retry_time,
                 verdict, undef, accepted, failedStep, prevId, faults, memVars, spVars,
                 enclaveVars>>

(***************************************************************************)
(* malloc returns NULL for MSG0, MSG1 or MSG3: cleanUP, and then the null  *)
(* pointer is written to all the same.                                     *)
(***************************************************************************)
OutOfMemory ==
  /\ "alloc" \in faults
  /\ \E p \in {"config", "msg1", "proc_msg2"} : Goto(p, "null_write")
  /\ cleanUP(1, ptr, gret)
  /\ ptr' = AfterCleanUP(ptr)
  /\ failedStep' = TRUE
  /\ UNCHANGED <<jret, enclave_id, context, lostLeft, busy_retry_time, accepted, m0, m1,
                 m2, m3, att, spVars>>

NullWrite ==
  /\ Goto("null_write", "dead")
  /\ NoCleanUP
  /\ UNCHANGED <<jret, enclave_id, context, lostLeft, busy_retry_time, accepted,
                 failedStep, memVars, spVars>>

(* Once its heap is corrupt the process may abort at any time.             *)
UndefinedAbort ==
  /\ undef /\ pc # "dead"
  /\ pc' = "dead"
  /\ UNCHANGED <<round, jret, gret, enclave_id, context, lostLeft, busy_retry_time,
                 verdict, undef, waitKey, accepted, failedStep, prevId, faults, memVars, spVars,
                 enclaveVars>>

PowerLoss ==
  /\ "power" \in faults
  /\ pc \notin {"dead", "stopped"}
  /\ PowerTransition
  /\ UNCHANGED <<appVars, memVars, spVars>>

ServerStep ==
  \/ config_extended_ID \/ CreateEnclave \/ RetryLostEnclave \/ InitRa
  \/ send_MSG0
  \/ AllocMsg1 \/ GetMsg1Busy \/ GetMsg1 \/ GetMsg1Fails \/ SendMsg1
  \/ verifyMSG2
  \/ StartMsg3 \/ NullMsg2 \/ ProcMsg2Busy \/ ProcMsg2 \/ ProcMsg2Fails \/ SendMsg3
  \/ NullAttResult \/ VerifyMac \/ VerifyDangling \/ PutSecret
  \/ NullWrite \/ Report

Next ==
  \/ call_RA_SIM \/ ServerStep \/ PressKey
  \/ OutOfMemory \/ UndefinedAbort \/ PowerLoss

Spec == Init /\ [][Next]_vars

(***************************************************************************)
(* The server's thread keeps running; somebody at the console presses the  *)
(* key that cleanUP waits for.  Nobody owes the server a challenge.        *)
(***************************************************************************)
FairSpec == Spec /\ WF_vars(ServerStep)
AttendedSpec == FairSpec /\ WF_vars(PressKey)

----------------------------------------------------------------------------
(***************************************************************************)
(* verifyMSG3_and_PutINEnclave goes on after a failed MAC check, and may   *)
(* go on to put_secret_data.  Still no secret reaches an enclave without   *)
(* its result message having been verified in this challenge.              *)
(***************************************************************************)
SecretOnlyAfterVerifiedMac ==
  [][(\E e \in EnclaveIds : secret'[e] # secret[e] /\ secret'[e] # NoSecret)
       => gret = "ok" /\ ~undef]_vars

(***************************************************************************)
(* "Success" is returned only when the provider accepted, in this          *)
(* challenge, the evidence of an enclave created in this challenge, and    *)
(* enclave and provider agree on g_a and g_b.                              *)
(***************************************************************************)
SuccessMeansAttested ==
  verdict = "Success" =>
    /\ accepted
    /\ enclave_id > prevId
    /\ \E s \in issued : <<s.ga, s.gb>> = KeysOf(enclave_id)

(***************************************************************************)
(* Return codes are overwritten or dropped all along call_RA_SIM, and yet  *)
(* a challenge in which a call failed before MSG3 is never accepted by the *)
(* provider, because cleanUP takes away what the later steps need, and a   *)
(* stale MSG2 of an earlier challenge does not fit the new enclave.  (Only *)
(* a failure of config_extended_ID can be made good: by an older MSG0.)    *)
(***************************************************************************)
FailedStepNeverAccepted == ~(failedStep /\ accepted)

(***************************************************************************)
(* The provider accepts evidence only from a process whose heap is sound   *)
(* and whose global code is clean: a challenge that ended with a failed    *)
(* put_secret_data or MAC check (and was answered "Success") may leave     *)
(* dangling pointers and the code -1, and the next one must not get        *)
(* through on what is left.                                                *)
(***************************************************************************)
AcceptedInSoundProcess ==
  [][accepted' /\ ~accepted => gret = "ok" /\ ~undef]_vars

(***************************************************************************)
(* The retry loops end: whenever one of them is entered or repeated, the   *)
(* counter that a BUSY answer decrements has not run past 0 (at -1 the     *)
(* loop would not stop before the counter wraps around).                   *)
(***************************************************************************)
RetryBudget ==
  pc \in {"msg1", "get_msg1", "proc_msg2"} => busy_retry_time \in 0 .. 4

(***************************************************************************)
(* Seen from outside, an attestation does what module Attestation says.    *)
(***************************************************************************)
AttPhase ==
  IF pc = "idle" THEN "idle"
  ELSE IF pc = "stopped" THEN "refused"
  ELSE IF pc = "dead" THEN "dead"
  ELSE "running"

Abstract == INSTANCE Attestation WITH phase <- AttPhase

ImplementsAttestation == Abstract!AttSpec

(***************************************************************************)
(* With the console attended, every challenge ends: with an answer, or     *)
(* with the death of the process.                                          *)
(***************************************************************************)
ChallengeEnds == (pc = "config") ~> (pc \in {"idle", "stopped", "dead"})

(***************************************************************************)
(* Without faults every challenge of a supported group is answered         *)
(* "Success", the secret of its exchange is in the enclave by then, and    *)
(* the heap is sound, although the globals of earlier challenges stay.     *)
(***************************************************************************)
FaultFreeSucceeds ==
  (faults = {} /\ pc = "create" /\ m0 \in SupportedGids) ~>
    (pc = "idle" /\ verdict = "Success" /\ secret[enclave_id] # NoSecret /\ ~undef)

(***************************************************************************)
(* Server.java's comment on the challenge: "pass failed on failure".  A    *)
(* challenge whose MSG3 was refused is answered "Failed".                  *)
(***************************************************************************)
FailureIsReported == (pc = "verify_mac" /\ jret = "error") ~> (verdict = "Failed")

(***************************************************************************)
(* The same comment: "pass Success-publickey on successfull attestation".  *)
(* When "Success" is answered, the result has been verified and its secret *)
(* is in the enclave.                                                      *)
(***************************************************************************)
SuccessMeansProvisioned ==
  verdict = "Success" /\ pc = "idle" => secret[enclave_id] # NoSecret
=============================================================================
