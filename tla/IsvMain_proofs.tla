--------------------------- MODULE IsvMain_proofs ---------------------------
(***************************************************************************)
(* What the exit code of isv_app.cpp's main tells, for any enclaves, any   *)
(* groups and any set of faults.                                           *)
(***************************************************************************)
EXTENDS IsvMain, RemoteAttestation_proofs

MainTypes ==
  /\ RaTypes /\ IsPerEnclave(secret)
  /\ Born(enclave_id)
  /\ \A e \in EnclaveIds : ra[e] = "get_gaed" => ga[e] = e

(* The steps before MSG0 is answered, and those before MSG1 is.            *)
BeforeMsg0Answer == {"idle", "config", "create", "init_ra", "msg0", "send0"}
BeforeMsg1Answer == BeforeMsg0Answer \union {"msg1", "get_msg1", "send1"}

(***************************************************************************)
(* main goes on after every failure, but a failed call always takes        *)
(* something away that the next request needs: the enclave (cleanUP), the  *)
(* MSG0 to register with, or the registration without which MSG1 is        *)
(* refused.  The provider's answer to MSG1 is thus one to a process in     *)
(* which nothing has failed, or to one without an enclave.                 *)
(***************************************************************************)
MainDoom ==
  /\ pc \in BeforeMsg0Answer => ~g_is_sp_registered
  /\ pc \in {"idle", "config"} => ~failedStep /\ ptr["p_msg0_full"] = "null"
  /\ pc = "create" => (failedStep => ptr["p_msg0_full"] = "null")
  /\ pc \in {"init_ra", "msg0", "send0"} =>
       (failedStep => Gone(enclave_id) \/ ptr["p_msg0_full"] = "null")
  /\ pc \in {"msg1", "get_msg1", "send1"} =>
       (failedStep => Gone(enclave_id) \/ ~g_is_sp_registered)
  /\ pc \in BeforeMsg1Answer => Msg2Ga = 0
  /\ pc = "send1" /\ ptr["p_msg1_full"] = "live" => m1 = enclave_id
  /\ pc \in LateSteps =>
       \/ Gone(enclave_id) \/ Msg2Ga = 0
       \/ /\ ~failedStep /\ Msg2Ga = enclave_id
          /\ m2.gb = gbCount /\ <<enclave_id, gbCount>> \in sent

(* A MSG3 with a body, and an accepted one, are of the latest exchange.    *)
LatestExchange ==
  /\ ~failedStep /\ <<enclave_id, gbCount>> \in sent
  /\ KeysOf(enclave_id) = <<enclave_id, gbCount>>

(* The secret of the enclave's own exchange is in it, or it is no more.    *)
Provisioned == secret[enclave_id] = KeysOf(enclave_id) \/ ~Live(enclave_id)

(***************************************************************************)
(* There is a result message only when MSG3 was accepted; from there on    *)
(* the code 0 means that nothing has been cleaned up, and an error that    *)
(* the enclave is gone.                                                    *)
(***************************************************************************)
MainEvidence ==
  /\ pc \in BeforeMsg1Answer \union LateSteps \union {"send3"} => ~accepted
  /\ ptr["p_att_result_msg_full"] = "live" => accepted
  /\ pc \in {"put_secret", "report", "stopped"} => accepted
  /\ pc = "send3" /\ m3 # NoMsg3 => LatestExchange
  /\ accepted => LatestExchange
  /\ pc = "put_secret" =>
       \/ gret = "ok" /\ ptr["p_att_result_msg_full"] = "live"
       \/ gret = "error" /\ Gone(enclave_id)
  /\ pc = "report" =>
       (gret = "ok" /\ Provisioned) \/ (gret = "error" /\ Gone(enclave_id))
  /\ pc = "stopped" =>
       (verdict = "Success" /\ Provisioned) \/ (verdict = "Failed" /\ Gone(enclave_id))

----------------------------------------------------------------------------
(* Nothing can go wrong: no faults, and a group that is supported.         *)
Flawless == faults = {} /\ (pc \in {"idle", "config"} \/ m0 \in SupportedGids)

(* The steps at which the context of the enclave is in a certain state.    *)
InitedSteps == {"msg0", "send0", "msg1", "get_msg1"}
GotGaSteps == {"send1", "verify2", "msg3", "proc_msg2"}
KeySteps == {"send3", "verify_mac", "put_secret"}

(* The provider's session is complete and of the enclave's g_a.            *)
SessionIsOurs == g_sp_db.ga = enclave_id /\ OneExchange(g_sp_db)

(***************************************************************************)
(* Then every step finds what it needs: the buffers live, the enclave and  *)
(* its context in the right state, and the messages of one exchange.       *)
(***************************************************************************)
MainFlawless == Flawless =>
  /\ pc \notin {"null_write", "dead"} /\ ~undef /\ gret = "ok"
  /\ pc \in {"create", "init_ra", "msg0", "send0"} => ptr["p_msg0_full"] = "live"
  /\ pc \in {"init_ra"} \union InitedSteps \union GotGaSteps \union KeySteps =>
       Live(enclave_id)
  /\ pc \in InitedSteps => ra[enclave_id] = "inited"
  /\ pc \in GotGaSteps => ra[enclave_id] = "get_gaed"
  /\ pc \in KeySteps =>
       /\ HasKeys(enclave_id) /\ SessionIsOurs
       /\ KeysOf(enclave_id) = <<enclave_id, g_sp_db.gb>>
  /\ pc \in {"msg1", "get_msg1", "send3"} \union GotGaSteps => g_is_sp_registered
  /\ pc \in {"get_msg1", "send1"} => ptr["p_msg1_full"] = "live"
  /\ pc \in LateSteps =>
       /\ ptr["p_msg2_full"] = "live"
       /\ SessionIsOurs /\ m2 = Msg2For(g_sp_db)
  /\ pc = "send3" => m3 = Msg3For(enclave_id, g_sp_db.gb)
  /\ pc \in {"verify_mac", "put_secret"} =>
       /\ ptr["p_att_result_msg_full"] = "live"
       /\ att = [mk |-> KeysOf(enclave_id), sk |-> KeysOf(enclave_id)]

MainInv == MainTypes /\ MainDoom /\ MainEvidence /\ MainFlawless

(* Something did go wrong, or the group is not supported: MainFlawless     *)
(* says nothing.                                                           *)
Flawed == faults # {} \/ m0 \notin SupportedGids

----------------------------------------------------------------------------
LEMMA MainInitInv == Init => MainInv
<1> SUFFICES ASSUME Init PROVE MainInv
  OBVIOUS
<1>1. MainTypes
  BY RaInitInv DEF Init, EnclaveInit, MainTypes, RaInv, Born, IsPerEnclave
<1>2. MainDoom
  BY DEF Init, SpInit, MainDoom, Msg2Ga, NoMsg2, Msg2For, NoSession, BeforeMsg0Answer,
         BeforeMsg1Answer, LateSteps, Buffers
<1>3. MainEvidence
  BY DEF Init, MainEvidence, LatestExchange, BeforeMsg0Answer, BeforeMsg1Answer, LateSteps,
         Buffers
<1>4. MainFlawless
  BY DEF Init, MainFlawless, InitedSteps, GotGaSteps, KeySteps, LateSteps
<1> QED
  BY <1>1, <1>2, <1>3, <1>4 DEF MainInv

(* A step that leaves the enclaves as they are.                            *)
LEMMA SteadyMainTypes ==
  ASSUME MainTypes, UNCHANGED <<enclaveVars, enclave_id>>,
         ptr' \in [Buffers -> {"null", "live", "freed"}],
         gret' \in Codes, undef' \in BOOLEAN, failedStep' \in BOOLEAN
  PROVE  MainTypes' /\ UNCHANGED <<life, ra, ga, gb, secret>>
<1>1. UNCHANGED <<life, ra, ga, gb, secret>>
  BY DEF enclaveVars
<1> QED
  BY <1>1 DEF MainTypes, RaTypes, IsPerEnclave, Born

(* cleanUP, also where it leaves the global code to its caller.            *)
LEMMA CleanedUpTypes ==
  ASSUME MainTypes, NEW close, CloseAndDestroy(enclave_id, close), UNCHANGED enclave_id,
         ptr' \in [Buffers -> {"null", "live", "freed"}],
         gret' \in Codes, undef' \in BOOLEAN, failedStep' \in BOOLEAN
  PROVE  MainTypes' /\ Gone(enclave_id)' /\ UNCHANGED <<ga, gb>>
<1>1. /\ life' = [f \in EnclaveIds |->
                    IF f = enclave_id /\ life[f] # "unborn" THEN "destroyed" ELSE life[f]]
      /\ ra' = [f \in EnclaveIds |->
                  IF f = enclave_id /\ close /\ CanClose(enclave_id) THEN "closed" ELSE ra[f]]
      /\ secret' = [f \in EnclaveIds |-> IF f = enclave_id THEN NoSecret ELSE secret[f]]
      /\ UNCHANGED <<ga, gb>>
  BY DEF CloseAndDestroy
<1>2. Gone(enclave_id)' /\ Born(enclave_id)'
  BY <1>1, EnclaveIdsAssumption DEF MainTypes, Gone, Born
<1>3. life' \in [EnclaveIds -> Life]
  BY <1>1 DEF MainTypes, RaTypes, Life
<1>4. IsPerEnclave(ra)' /\ IsPerEnclave(secret)' /\ IsPerEnclave(ga)' /\ IsPerEnclave(gb)'
  BY <1>1 DEF MainTypes, RaTypes, IsPerEnclave
<1>5. \A e \in EnclaveIds : ra'[e] = "get_gaed" => ga'[e] = e
  BY <1>1 DEF MainTypes
<1> QED
  BY <1>1, <1>2, <1>3, <1>4, <1>5 DEF MainTypes, RaTypes

LEMMA CleanUpTypes ==
  ASSUME MainTypes, NEW n, NEW p, NEW g \in Codes, cleanUP(n, p, g), UNCHANGED enclave_id,
         ptr' \in [Buffers -> {"null", "live", "freed"}], failedStep' \in BOOLEAN
  PROVE  /\ MainTypes' /\ Gone(enclave_id)' /\ UNCHANGED <<ga, gb>>
         /\ gret' \in {g, "error"}
<1>1. CloseAndDestroy(enclave_id, context) /\ gret' \in {g, "error"}
      /\ undef' = (undef \/ DoubleFree(p, n))
  BY DEF cleanUP
<1>2. gret' \in Codes /\ undef' \in BOOLEAN
  BY <1>1 DEF MainTypes, RaTypes, Codes, DoubleFree
<1> QED
  BY <1>1, <1>2, CleanedUpTypes

----------------------------------------------------------------------------
(* Where a call has failed and cleanUP has run, before MSG3 is sent.       *)
LEMMA FailureInv ==
  ASSUME MainInv, Flawed, MainTypes', Gone(enclave_id)',
         pc \in BeforeMsg1Answer \union LateSteps,
         pc' \in {"init_ra", "msg0", "send0", "send1", "msg3", "send3", "null_write"},
         pc' \in BeforeMsg0Answer => pc \in BeforeMsg0Answer,
         pc' \in BeforeMsg1Answer => pc \in BeforeMsg1Answer,
         ptr'["p_msg1_full"] = "null", ptr'["p_att_result_msg_full"] # "live",
         pc' = "send3" => m3' = NoMsg3,
         UNCHANGED <<spVars, accepted, m0, m2, faults>>
  PROVE  MainInv'
<1>1. UNCHANGED <<g_is_sp_registered, gbCount, sent, g_sp_db>>
  BY DEF spVars
<1>2. MainDoom'
  BY <1>1 DEF MainInv, MainDoom, BeforeMsg0Answer, BeforeMsg1Answer, LateSteps, Msg2Ga
<1>3. ~accepted
  BY DEF MainInv, MainEvidence
<1>4. MainEvidence'
  BY <1>3 DEF MainEvidence
<1>5. MainFlawless'
  BY DEF Flawed, Flawless, MainFlawless
<1> QED
  BY <1>2, <1>4, <1>5 DEF MainInv

LEMMA MainStarts == MainInv /\ main => MainInv'
<1> SUFFICES ASSUME MainInv, main PROVE MainInv'
  OBVIOUS
<1>1. /\ pc = "idle" /\ pc' = "config"
      /\ UNCHANGED <<enclaveVars, gret, enclave_id, undef, accepted, failedStep, faults,
                     memVars, spVars, verdict>>
  BY DEF main
<1>2. UNCHANGED <<ptr, m0, m1, m2, m3, att, g_is_sp_registered, gbCount, sent, g_sp_db>>
  BY <1>1 DEF memVars, spVars
<1>3. MainTypes' /\ UNCHANGED <<life, ra, ga, gb, secret>>
  BY <1>1, <1>2, SteadyMainTypes DEF MainInv, MainTypes, RaTypes
<1>4. MainDoom'
  BY <1>1, <1>2 DEF MainInv, MainDoom, BeforeMsg0Answer, BeforeMsg1Answer, LateSteps, Msg2Ga
<1>5. MainEvidence'
  BY <1>1, <1>2, <1>3 DEF MainInv, MainEvidence, LatestExchange, KeysOf, BeforeMsg0Answer,
                          BeforeMsg1Answer
<1>6. MainFlawless'
  BY <1>1, <1>2 DEF MainInv, MainFlawless, Flawless, InitedSteps, GotGaSteps, KeySteps, LateSteps
<1> QED
  BY <1>3, <1>4, <1>5, <1>6 DEF MainInv

LEMMA MainConfigInv == MainInv /\ MainConfig => MainInv'
<1> SUFFICES ASSUME MainInv, MainConfig PROVE MainInv'
  OBVIOUS
<1>1. /\ pc = "config" /\ pc' = "create"
      /\ UNCHANGED <<enclaveVars, enclave_id, undef, accepted, faults, spVars>>
  BY DEF MainConfig, MainGoto, Goto, NoCleanUPLocal
<1>2. UNCHANGED <<g_is_sp_registered, gbCount, sent, g_sp_db>>
  BY <1>1 DEF spVars
<1>3. ~accepted /\ ptr["p_att_result_msg_full"] # "live"
  BY <1>1 DEF MainInv, MainEvidence, BeforeMsg0Answer, BeforeMsg1Answer
<1>4. CASE "sdk" \in faults /\ gret' = "error" /\ failedStep' = TRUE /\ UNCHANGED memVars
  <2>1. UNCHANGED <<ptr, m0, m1, m2, m3, att>>
    BY <1>4 DEF memVars
  <2>2. MainTypes'
    BY <1>1, <1>4, <2>1, SteadyMainTypes DEF MainInv, MainTypes, RaTypes, Codes
  <2>3. ptr["p_msg0_full"] = "null"
    BY <1>1 DEF MainInv, MainDoom
  <2>4. MainDoom'
    BY <1>1, <1>2, <2>1, <2>3
       DEF MainInv, MainDoom, BeforeMsg0Answer, BeforeMsg1Answer, LateSteps, Msg2Ga
  <2>5. MainEvidence' /\ MainFlawless'
    BY <1>1, <1>3, <1>4, <2>1 DEF MainEvidence, MainFlawless, Flawless
  <2> QED
    BY <2>2, <2>4, <2>5 DEF MainInv
<1>5. CASE /\ gret' = "ok" /\ ptr' = [ptr EXCEPT !["p_msg0_full"] = "live"]
           /\ UNCHANGED <<failedStep, m1, m2, m3, att>>
  <2>1. /\ ptr' \in [Buffers -> {"null", "live", "freed"}] /\ ptr'["p_msg0_full"] = "live"
        /\ ptr'["p_att_result_msg_full"] # "live"
    BY <1>3, <1>5 DEF MainInv, MainTypes, RaTypes, Buffers
  <2>2. MainTypes'
    BY <1>1, <1>5, <2>1, SteadyMainTypes DEF MainInv, MainTypes, RaTypes, Codes
  <2>3. MainDoom'
    BY <1>1, <1>2, <1>5
       DEF MainInv, MainDoom, BeforeMsg0Answer, BeforeMsg1Answer, LateSteps, Msg2Ga
  <2>4. MainEvidence'
    BY <1>1, <1>3, <2>1 DEF MainEvidence
  <2>5. MainFlawless'
    BY <1>1, <1>5, <2>1
       DEF MainInv, MainFlawless, Flawless, InitedSteps, GotGaSteps, KeySteps, LateSteps
  <2> QED
    BY <2>2, <2>3, <2>4, <2>5 DEF MainInv
<1> QED
  BY <1>4, <1>5 DEF MainConfig

(* What a step of the thread before MSG3 is answered finds.                *)
LEMMA NothingAccepted ==
  ASSUME MainInv, pc \in BeforeMsg1Answer \union LateSteps \union {"send3"}
  PROVE  ~accepted /\ ptr["p_att_result_msg_full"] # "live"
BY DEF MainInv, MainEvidence

(* cleanUP's pointers.                                                     *)
LEMMA FreedBuffers ==
  ASSUME NEW p
  PROVE  /\ AfterCleanUP(p) \in [Buffers -> {"null", "live", "freed"}]
         /\ AfterCleanUP(p)["p_msg0_full"] = "null" /\ AfterCleanUP(p)["p_msg1_full"] = "null"
         /\ AfterCleanUP(p)["p_att_result_msg_full"] # "live"
BY DEF AfterCleanUP, Buffers, Responses

LEMMA MainCreateInv == MainInv /\ CreateEnclave => MainInv'
<1> SUFFICES ASSUME MainInv, CreateEnclave PROVE MainInv'
  OBVIOUS
<1>1. /\ pc = "create" /\ pc' = "init_ra"
      /\ UNCHANGED <<accepted, faults, spVars, m0, m1, m2, m3, att>>
  BY DEF CreateEnclave, Goto
<1>2. UNCHANGED <<g_is_sp_registered, gbCount, sent, g_sp_db>>
  BY <1>1 DEF spVars
<1>3. ~accepted /\ ptr["p_att_result_msg_full"] # "live"
  BY <1>1, NothingAccepted DEF BeforeMsg0Answer, BeforeMsg1Answer
<1>4. ASSUME NEW e \in EnclaveIds, sgx_create_enclave(e), enclave_id' = e,
             UNCHANGED <<gret, undef, ptr, failedStep>>
      PROVE  MainInv'
  <2>1. life' = [life EXCEPT ![e] = "live"] /\ UNCHANGED <<ra, ga, gb, secret>>
    BY <1>4 DEF sgx_create_enclave
  <2>2. life' \in [EnclaveIds -> Life] /\ life'[e] = "live"
    BY <2>1 DEF MainInv, MainTypes, RaTypes, Life
  <2>3. MainTypes'
    BY <1>4, <2>1, <2>2 DEF MainInv, MainTypes, RaTypes, IsPerEnclave, Born
  <2>4. MainDoom'
    BY <1>1, <1>2, <1>4
       DEF MainInv, MainDoom, BeforeMsg0Answer, BeforeMsg1Answer, LateSteps, Msg2Ga
  <2>5. MainEvidence'
    BY <1>1, <1>3, <1>4 DEF MainEvidence
  <2>6. MainFlawless'
    BY <1>1, <1>4, <2>2
       DEF MainInv, MainFlawless, Flawless, InitedSteps, GotGaSteps, KeySteps, LateSteps, Live
  <2> QED
    BY <2>3, <2>4, <2>5, <2>6 DEF MainInv
<1>5. CASE /\ "sdk" \in faults /\ cleanUP(1, ptr, gret) /\ ptr' = AfterCleanUP(ptr)
           /\ failedStep' = TRUE /\ UNCHANGED enclave_id
  <2>1. MainTypes' /\ Gone(enclave_id)'
    BY <1>5, FreedBuffers, CleanUpTypes DEF MainInv, MainTypes, RaTypes
  <2>2. Flawed
    BY <1>5 DEF Flawed
  <2> QED
    BY <1>1, <1>5, <2>1, <2>2, FreedBuffers, FailureInv DEF BeforeMsg0Answer, BeforeMsg1Answer
<1> QED
  BY <1>4, <1>5 DEF CreateEnclave

LEMMA MainRetryInv == MainInv /\ RetryLostEnclave => MainInv'
<1> SUFFICES ASSUME MainInv, RetryLostEnclave PROVE MainInv'
  OBVIOUS
<1>1. /\ pc = "init_ra" /\ pc' = "create"
      /\ enclave_id \in EnclaveIds /\ life[enclave_id] = "lost"
      /\ UNCHANGED <<enclaveVars, gret, undef, enclave_id, accepted, faults, spVars, memVars,
                     failedStep>>
  BY DEF RetryLostEnclave, Goto, NoCleanUP
<1>2. UNCHANGED <<ptr, m0, m1, m2, m3, att, g_is_sp_registered, gbCount, sent, g_sp_db>>
  BY <1>1 DEF spVars, memVars
<1>3. ~accepted /\ ptr["p_att_result_msg_full"] # "live"
  BY <1>1, NothingAccepted DEF BeforeMsg0Answer, BeforeMsg1Answer
<1>4. ~Gone(enclave_id) /\ ~Live(enclave_id)
  BY <1>1 DEF Gone, Live
<1>5. MainTypes'
  BY <1>1, <1>2, SteadyMainTypes DEF MainInv, MainTypes, RaTypes
<1>6. MainDoom'
  BY <1>1, <1>2, <1>4
     DEF MainInv, MainDoom, BeforeMsg0Answer, BeforeMsg1Answer, LateSteps, Msg2Ga
<1>7. MainEvidence'
  BY <1>1, <1>2, <1>3 DEF MainEvidence
<1>8. MainFlawless'
  BY <1>1, <1>2, <1>4 DEF MainInv, MainFlawless, Flawless
<1> QED
  BY <1>5, <1>6, <1>7, <1>8 DEF MainInv

LEMMA MainInitRaInv == MainInv /\ MainInitRa => MainInv'
<1> SUFFICES ASSUME MainInv, MainInitRa PROVE MainInv'
  OBVIOUS
<1>1. /\ pc = "init_ra" /\ pc' = "msg0"
      /\ UNCHANGED <<enclave_id, accepted, faults, spVars, m0, m1, m2, m3, att>>
  BY DEF MainInitRa, MainGoto, Goto
<1>2. UNCHANGED <<g_is_sp_registered, gbCount, sent, g_sp_db>>
  BY <1>1 DEF spVars
<1>3. ~accepted /\ ptr["p_att_result_msg_full"] # "live"
  BY <1>1, NothingAccepted DEF BeforeMsg0Answer, BeforeMsg1Answer
<1>4. CASE /\ enclave_init_ra(enclave_id) /\ gret' = "ok"
           /\ UNCHANGED <<undef, ptr, failedStep>>
  <2>1. /\ Live(enclave_id) /\ ra' = [ra EXCEPT ![enclave_id] = "inited"]
        /\ UNCHANGED <<life, ga, gb, secret>>
    BY <1>4 DEF enclave_init_ra
  <2>2. Live(enclave_id)' /\ ra'[enclave_id] = "inited" /\ IsPerEnclave(ra')
    BY <1>1, <2>1 DEF MainInv, MainTypes, RaTypes, IsPerEnclave, Live
  <2>3. MainTypes'
    BY <1>1, <1>4, <2>1, <2>2 DEF MainInv, MainTypes, RaTypes, IsPerEnclave, Born, Codes
  <2>4. Gone(enclave_id)' <=> Gone(enclave_id)
    BY <1>1, <2>1 DEF Gone
  <2>5. MainDoom'
    BY <1>1, <1>2, <1>4, <2>4
       DEF MainInv, MainDoom, BeforeMsg0Answer, BeforeMsg1Answer, LateSteps, Msg2Ga
  <2>6. MainEvidence'
    BY <1>1, <1>3, <1>4 DEF MainEvidence
  <2>7. MainFlawless'
    BY <1>1, <1>4, <2>2
       DEF MainInv, MainFlawless, Flawless, InitedSteps, GotGaSteps, KeySteps, LateSteps
  <2> QED
    BY <2>3, <2>5, <2>6, <2>7 DEF MainInv
<1>5. CASE /\ MayFail(Live(enclave_id)) /\ CleanUPLocal
           /\ gret' = "error" /\ failedStep' = TRUE
  <2>1. undef' \in BOOLEAN /\ gret' \in Codes
    BY <1>5 DEF CleanUPLocal, MainInv, MainTypes, RaTypes, DoubleFree, Codes
  <2>2. ptr' = AfterCleanUP(ptr) /\ CloseAndDestroy(enclave_id, context)
    BY <1>5 DEF CleanUPLocal
  <2>3. MainTypes' /\ Gone(enclave_id)'
    BY <1>1, <1>5, <2>1, <2>2, FreedBuffers, CleanedUpTypes DEF MainInv
  <2>4. Flawed
    BY <1>1, <1>5 DEF Flawed, MayFail, MainInv, MainFlawless, Flawless
  <2> QED
    BY <1>1, <2>2, <2>3, <2>4, FreedBuffers, FailureInv DEF BeforeMsg0Answer, BeforeMsg1Answer
<1> QED
  BY <1>4, <1>5 DEF MainInitRa

LEMMA MainMsg0Inv == MainInv /\ MainMsg0 => MainInv'
<1> SUFFICES ASSUME MainInv, MainMsg0 PROVE MainInv'
  OBVIOUS
<1>1. /\ pc = "msg0" /\ pc' = "send0"
      /\ UNCHANGED <<gret, failedStep, enclave_id, accepted, faults, spVars, m0, m1, m2, m3, att>>
  BY DEF MainMsg0, MainGoto, Goto
<1>2. UNCHANGED <<g_is_sp_registered, gbCount, sent, g_sp_db>>
  BY <1>1 DEF spVars
<1>3. ~accepted /\ ptr["p_att_result_msg_full"] # "live"
  BY <1>1, NothingAccepted DEF BeforeMsg0Answer, BeforeMsg1Answer
<1>4. CASE UNCHANGED <<enclaveVars, undef, ptr>>
  <2>1. MainTypes' /\ UNCHANGED <<life, ra, ga, gb, secret>>
    BY <1>1, <1>4, SteadyMainTypes DEF MainInv, MainTypes, RaTypes
  <2>2. MainDoom'
    BY <1>1, <1>2, <1>4, <2>1
       DEF MainInv, MainDoom, BeforeMsg0Answer, BeforeMsg1Answer, LateSteps, Msg2Ga, Gone
  <2>3. MainEvidence'
    BY <1>1, <1>3, <1>4 DEF MainEvidence
  <2>4. MainFlawless'
    BY <1>1, <1>4, <2>1
       DEF MainInv, MainFlawless, Flawless, InitedSteps, GotGaSteps, KeySteps, LateSteps, Live
  <2> QED
    BY <2>1, <2>2, <2>3, <2>4 DEF MainInv
<1>5. CASE gret # "ok" /\ CleanUPLocal
  <2>1. undef' \in BOOLEAN /\ gret' \in Codes /\ failedStep' \in BOOLEAN
    BY <1>1, <1>5 DEF CleanUPLocal, MainInv, MainTypes, RaTypes, DoubleFree
  <2>2. ptr' = AfterCleanUP(ptr) /\ CloseAndDestroy(enclave_id, context)
    BY <1>5 DEF CleanUPLocal
  <2>3. MainTypes' /\ Gone(enclave_id)'
    BY <1>1, <2>1, <2>2, FreedBuffers, CleanedUpTypes DEF MainInv
  <2>4. Flawed
    BY <1>1, <1>5 DEF Flawed, MainInv, MainFlawless, Flawless
  <2> QED
    BY <1>1, <2>2, <2>3, <2>4, FreedBuffers, FailureInv DEF BeforeMsg0Answer, BeforeMsg1Answer
<1> QED
  BY <1>4, <1>5 DEF MainMsg0, NoCleanUPLocal

(***************************************************************************)
(* MSG0's answer.  The provider registers only for a MSG0 that exists, so  *)
(* a process that has failed to make one stays unregistered.               *)
(***************************************************************************)
LEMMA ToServerMsg0Inv == MainInv /\ ToServerMsg0 => MainInv'
<1> SUFFICES ASSUME MainInv, ToServerMsg0 PROVE MainInv'
  OBVIOUS
<1>1. /\ pc = "send0" /\ pc' = "msg1" /\ gret' = CodeOf(spRet')
      /\ failedStep' = (failedStep \/ spRet' # "SP_OK")
      /\ UNCHANGED <<enclaveVars, undef, enclave_id, accepted, faults, ptr, m0, m1, m2, m3, att>>
  BY DEF ToServerMsg0, ToServer, MainGoto, Goto, NoCleanUPLocal
<1>2. UNCHANGED <<gbCount, sent, g_sp_db>>
  BY DEF ToServerMsg0, Refuse, sp_ra_proc_msg0_req
<1>3. ~accepted /\ ptr["p_att_result_msg_full"] # "live"
  BY <1>1, NothingAccepted DEF BeforeMsg0Answer, BeforeMsg1Answer
<1>4. ~g_is_sp_registered
  BY <1>1 DEF MainInv, MainDoom, BeforeMsg0Answer
<1>5. ~(spRet' = "SP_OK" /\ ptr["p_msg0_full"] = "live") => ~g_is_sp_registered'
  BY <1>4 DEF ToServerMsg0, Refuse, sp_ra_proc_msg0_req
<1>6. MainTypes' /\ UNCHANGED <<life, ra, ga, gb, secret>>
  BY <1>1, SteadyMainTypes DEF MainInv, MainTypes, RaTypes, CodeOf, Codes
<1>7. MainDoom'
  BY <1>1, <1>2, <1>5, <1>6
     DEF MainInv, MainDoom, BeforeMsg0Answer, BeforeMsg1Answer, LateSteps, Msg2Ga, Gone
<1>8. MainEvidence'
  BY <1>1, <1>3 DEF MainEvidence
<1>9. MainFlawless'
  <2> SUFFICES ASSUME Flawless' PROVE MainFlawless'
    BY DEF MainFlawless
  <2>1. Flawless /\ m0 \in SupportedGids /\ ptr["p_msg0_full"] = "live"
    BY <1>1 DEF MainInv, MainFlawless, Flawless
  <2>2. spRet' = "SP_OK" /\ g_is_sp_registered'
    BY <1>4, <2>1 DEF ToServerMsg0, sp_ra_proc_msg0_req
  <2> QED
    BY <1>1, <1>6, <2>1, <2>2
       DEF MainInv, MainFlawless, InitedSteps, GotGaSteps, KeySteps, LateSteps, Live, CodeOf
<1> QED
  BY <1>6, <1>7, <1>8, <1>9 DEF MainInv

LEMMA MainAllocMsg1Inv == MainInv /\ AllocMsg1 => MainInv'
<1> SUFFICES ASSUME MainInv, AllocMsg1 PROVE MainInv'
  OBVIOUS
<1>1. /\ pc = "msg1" /\ pc' = "get_msg1"
      /\ ptr' = [ptr EXCEPT !["p_msg1_full"] = "live"]
      /\ UNCHANGED <<enclaveVars, gret, undef, enclave_id, accepted, failedStep, faults,
                     spVars, m0, m1, m2, m3, att>>
  BY DEF AllocMsg1, Goto, NoCleanUP
<1>2. UNCHANGED <<g_is_sp_registered, gbCount, sent, g_sp_db>>
  BY <1>1 DEF spVars
<1>3. ~accepted /\ ptr["p_att_result_msg_full"] # "live"
  BY <1>1, NothingAccepted DEF BeforeMsg1Answer
<1>4. /\ ptr' \in [Buffers -> {"null", "live", "freed"}] /\ ptr'["p_msg1_full"] = "live"
      /\ ptr'["p_att_result_msg_full"] # "live"
  BY <1>1, <1>3 DEF MainInv, MainTypes, RaTypes, Buffers
<1>5. MainTypes' /\ UNCHANGED <<life, ra, ga, gb, secret>>
  BY <1>1, <1>4, SteadyMainTypes DEF MainInv, MainTypes, RaTypes
<1>6. MainDoom'
  BY <1>1, <1>2, <1>5
     DEF MainInv, MainDoom, BeforeMsg0Answer, BeforeMsg1Answer, LateSteps, Msg2Ga, Gone
<1>7. MainEvidence'
  BY <1>1, <1>3, <1>4 DEF MainEvidence
<1>8. MainFlawless'
  BY <1>1, <1>2, <1>4, <1>5
     DEF MainInv, MainFlawless, Flawless, InitedSteps, GotGaSteps, KeySteps, LateSteps, Live
<1> QED
  BY <1>5, <1>6, <1>7, <1>8 DEF MainInv

(* A step that changes nothing the invariant speaks of.                    *)
LEMMA MainRests ==
  ASSUME MainInv, UNCHANGED <<pc, enclaveVars, gret, undef, enclave_id, accepted, failedStep,
                              faults, verdict, memVars, spVars>>
  PROVE  MainInv'
<1>1. UNCHANGED <<ptr, m0, m1, m2, m3, att, g_is_sp_registered, gbCount, sent, g_sp_db>>
  BY DEF memVars, spVars
<1>2. MainTypes' /\ UNCHANGED <<life, ra, ga, gb, secret>>
  BY <1>1, SteadyMainTypes DEF MainInv, MainTypes, RaTypes
<1>3. Msg2Ga' = Msg2Ga /\ (Gone(enclave_id)' <=> Gone(enclave_id))
      /\ (LatestExchange' <=> LatestExchange) /\ (Provisioned' <=> Provisioned)
      /\ (Flawless' <=> Flawless)
  BY <1>1, <1>2 DEF Msg2Ga, Gone, LatestExchange, Provisioned, KeysOf, Live, Flawless
<1>4. MainDoom'
  BY <1>1, <1>3 DEF MainInv, MainDoom
<1>5. MainEvidence'
  BY <1>1, <1>3 DEF MainInv, MainEvidence
<1>6. MainFlawless'
  BY <1>1, <1>2, <1>3
     DEF MainInv, MainFlawless, Live, HasKeys, KeysOf, SessionIsOurs, OneExchange
<1> QED
  BY <1>2, <1>4, <1>5, <1>6 DEF MainInv

LEMMA MainBusyInv == MainInv /\ (GetMsg1Busy \/ ProcMsg2Busy) => MainInv'
<1> SUFFICES ASSUME MainInv, GetMsg1Busy \/ ProcMsg2Busy PROVE MainInv'
  OBVIOUS
<1>1. UNCHANGED <<pc, enclaveVars, gret, undef, enclave_id, accepted, failedStep, faults,
                  verdict, memVars, spVars>>
  BY DEF GetMsg1Busy, ProcMsg2Busy, Goto, NoCleanUP
<1> QED
  BY <1>1, MainRests

LEMMA MainGetMsg1Inv == MainInv /\ GetMsg1 => MainInv'
<1> SUFFICES ASSUME MainInv, GetMsg1 PROVE MainInv'
  OBVIOUS
<1>1. /\ pc = "get_msg1" /\ pc' = "send1" /\ m1' = enclave_id
      /\ sgx_ra_get_msg1(enclave_id)
      /\ UNCHANGED <<gret, undef, enclave_id, accepted, failedStep, faults, spVars,
                     ptr, m0, m2, m3, att>>
  BY DEF GetMsg1, Goto
<1>2. UNCHANGED <<g_is_sp_registered, gbCount, sent, g_sp_db>>
  BY <1>1 DEF spVars
<1>3. ~accepted /\ ptr["p_att_result_msg_full"] # "live"
  BY <1>1, NothingAccepted DEF BeforeMsg1Answer
<1>4. /\ enclave_id \in EnclaveIds
      /\ ra' = [ra EXCEPT ![enclave_id] = "get_gaed"]
      /\ ga' = [ga EXCEPT ![enclave_id] = enclave_id]
      /\ UNCHANGED <<life, gb, secret>>
  BY <1>1 DEF sgx_ra_get_msg1, CanGetMsg1, Live
<1>5. /\ IsPerEnclave(ra') /\ IsPerEnclave(ga') /\ ra'[enclave_id] = "get_gaed"
      /\ \A e \in EnclaveIds : ra'[e] = "get_gaed" => ga'[e] = e
  BY <1>4 DEF MainInv, MainTypes, RaTypes, IsPerEnclave
<1>6. MainTypes'
  BY <1>1, <1>4, <1>5 DEF MainInv, MainTypes, RaTypes, IsPerEnclave, Born
<1>7. MainDoom'
  BY <1>1, <1>2, <1>4
     DEF MainInv, MainDoom, BeforeMsg0Answer, BeforeMsg1Answer, LateSteps, Msg2Ga, Gone
<1>8. MainEvidence'
  BY <1>1, <1>3 DEF MainEvidence
<1>9. MainFlawless'
  BY <1>1, <1>2, <1>4, <1>5
     DEF MainInv, MainFlawless, Flawless, InitedSteps, GotGaSteps, KeySteps, LateSteps, Live
<1> QED
  BY <1>6, <1>7, <1>8, <1>9 DEF MainInv

LEMMA MainGetMsg1FailsInv == MainInv /\ GetMsg1Fails => MainInv'
<1> SUFFICES ASSUME MainInv, GetMsg1Fails PROVE MainInv'
  OBVIOUS
<1>1. /\ pc = "get_msg1" /\ pc' = "send1" /\ cleanUP(1, ptr, gret) /\ failedStep' = TRUE
      /\ ptr' = AfterCleanUP(ptr)
      /\ UNCHANGED <<enclave_id, accepted, faults, spVars, m0, m2>>
  BY DEF GetMsg1Fails, Goto
<1>2. MainTypes' /\ Gone(enclave_id)'
  BY <1>1, FreedBuffers, CleanUpTypes DEF MainInv, MainTypes, RaTypes
<1>3. "busy" \in faults \/ "sdk" \in faults \/ ~CanGetMsg1(enclave_id)
  BY DEF GetMsg1Fails, MayFail
<1>4. Flawed
  BY <1>1, <1>3 DEF Flawed, MainInv, MainFlawless, Flawless, CanGetMsg1, InitedSteps
<1> QED
  BY <1>1, <1>2, <1>4, FreedBuffers, FailureInv DEF BeforeMsg0Answer, BeforeMsg1Answer

----------------------------------------------------------------------------
(***************************************************************************)
(* MSG1's answer.  A MSG2 is for the key of the enclave at hand, and for   *)
(* the newest exchange; without one the MSG2 buffer stays as it was.       *)
(***************************************************************************)
LEMMA ToServerMsg1Inv == MainInv /\ ToServerMsg1 => MainInv'
<1> SUFFICES ASSUME MainInv, ToServerMsg1 PROVE MainInv'
  OBVIOUS
<1>1. /\ pc = "send1" /\ pc' = "verify2" /\ gret' = CodeOf(spRet')
      /\ failedStep' = (failedStep \/ spRet' # "SP_OK")
      /\ UNCHANGED <<enclaveVars, undef, enclave_id, accepted, faults, m0, m1, m3, att>>
  BY DEF ToServerMsg1, ToServer, MainGoto, Goto, NoCleanUPLocal
<1>2. ~accepted /\ ptr["p_att_result_msg_full"] # "live" /\ Msg2Ga = 0
  BY <1>1, NothingAccepted DEF MainInv, MainDoom, BeforeMsg1Answer
<1>3. UNCHANGED <<life, ra, ga, gb, secret>>
  BY <1>1 DEF enclaveVars
<1>4. CASE /\ ptr["p_msg1_full"] = "live" /\ Msg1Succeeds(m1)
           /\ ptr' = [ptr EXCEPT !["p_msg2_full"] = "live"] /\ m2' = Msg2For(g_sp_db')
  <2>1. g_is_sp_registered /\ spRet' = "SP_OK" /\ UNCHANGED g_is_sp_registered
    BY <1>4 DEF Msg1Succeeds
  <2>2. m1 = enclave_id /\ (failedStep => Gone(enclave_id))
    BY <1>1, <1>4, <2>1 DEF MainInv, MainDoom
  <2>3. /\ ptr' \in [Buffers -> {"null", "live", "freed"}] /\ ptr'["p_msg2_full"] = "live"
        /\ ptr'["p_att_result_msg_full"] # "live"
    BY <1>2, <1>4 DEF MainInv, MainTypes, RaTypes, Buffers
  <2>4. gret' = "ok" /\ failedStep' = failedStep
    BY <1>1, <2>1 DEF CodeOf, MainInv, MainTypes, RaTypes
  <2>5. MainTypes'
    BY <1>1, <2>3, <2>4, SteadyMainTypes DEF MainInv, MainTypes, RaTypes, Codes
  <2>6. /\ g_sp_db'.ga = enclave_id /\ g_sp_db'.gb = gbCount' /\ OneExchange(g_sp_db')
        /\ <<enclave_id, gbCount'>> \in sent'
    BY <1>4, <2>2 DEF Msg1Succeeds, DbAfter, derive_key, OneExchange
  <2>7. Msg2Ga' = enclave_id /\ m2'.gb = gbCount'
    BY <1>4, <2>6 DEF Msg2Ga, Msg2For
  <2>8. MainDoom'
    BY <1>1, <1>3, <2>2, <2>4, <2>6, <2>7
       DEF MainDoom, BeforeMsg0Answer, BeforeMsg1Answer, LateSteps, Gone
  <2>9. MainEvidence'
    BY <1>1, <1>2, <2>3 DEF MainEvidence
  <2>10. MainFlawless'
    BY <1>1, <1>3, <1>4, <2>1, <2>3, <2>4, <2>6
       DEF MainInv, MainFlawless, Flawless, InitedSteps, GotGaSteps, KeySteps, LateSteps, Live,
           SessionIsOurs
  <2> QED
    BY <2>5, <2>8, <2>9, <2>10 DEF MainInv
<1>5. CASE /\ \/ ptr["p_msg1_full"] = "null" /\ Refuse
              \/ /\ ptr["p_msg1_full"] = "live"
                 /\ \/ "sp" \in faults /\ \E done \in Msg1Steps : Msg1Fails(m1, done)
                    \/ Msg1Unregistered
           /\ UNCHANGED <<ptr, m2>>
  <2>1. spRet' # "SP_OK"
    BY <1>5 DEF Refuse, Msg1Fails, Msg1Unregistered
  <2>2. MainTypes'
    BY <1>1, <1>5, SteadyMainTypes DEF MainInv, MainTypes, RaTypes, CodeOf, Codes
  <2>3. MainDoom'
    BY <1>1, <1>2, <1>5
       DEF MainDoom, BeforeMsg0Answer, BeforeMsg1Answer, LateSteps, Msg2Ga
  <2>4. MainEvidence'
    BY <1>1, <1>2, <1>5 DEF MainEvidence
  <2>5. Flawed
    BY <1>1, <1>5
       DEF Flawed, MainInv, MainFlawless, Flawless, GotGaSteps, Msg1Unregistered
  <2>6. MainFlawless'
    BY <1>1, <2>5 DEF Flawed, Flawless, MainFlawless
  <2> QED
    BY <2>2, <2>3, <2>4, <2>6 DEF MainInv
<1> QED
  BY <1>4, <1>5 DEF ToServerMsg1

(* Without faults verifyMSG2 finds the MSG2 of this process.               *)
LEMMA MainVerify2Inv == MainInv /\ verifyMSG2 => MainInv'
<1> SUFFICES ASSUME MainInv, verifyMSG2 PROVE MainInv'
  OBVIOUS
<1>1. /\ pc = "verify2" /\ pc' = "msg3"
      /\ UNCHANGED <<enclave_id, accepted, failedStep, faults, spVars, m0, m1, m2, m3, att>>
  BY DEF verifyMSG2, Goto
<1>2. UNCHANGED <<g_is_sp_registered, gbCount, sent, g_sp_db>>
  BY <1>1 DEF spVars
<1>3. ~accepted /\ ptr["p_att_result_msg_full"] # "live"
  BY <1>1, NothingAccepted DEF LateSteps
<1>4. gret # "ok" \/ ptr["p_msg2_full"] # "live" => Flawed
  BY <1>1 DEF Flawed, MainInv, MainFlawless, Flawless, LateSteps
<1>5. CASE /\ UNCHANGED <<enclaveVars, gret, ptr>>
           /\ UNCHANGED undef \/ (undef' = TRUE /\ Flawed)
  <2>1. MainTypes' /\ UNCHANGED <<life, ra, ga, gb, secret>>
    BY <1>1, <1>5, SteadyMainTypes DEF MainInv, MainTypes, RaTypes
  <2>2. MainDoom'
    BY <1>1, <1>2, <2>1
       DEF MainInv, MainDoom, BeforeMsg0Answer, BeforeMsg1Answer, LateSteps, Msg2Ga, Gone
  <2>3. MainEvidence'
    BY <1>1, <1>3, <1>5 DEF MainEvidence
  <2>4. MainFlawless'
    BY <1>1, <1>2, <1>5, <2>1
       DEF MainInv, MainFlawless, Flawless, Flawed, InitedSteps, GotGaSteps, KeySteps,
           LateSteps, Live, SessionIsOurs
  <2> QED
    BY <2>1, <2>2, <2>3, <2>4 DEF MainInv
<1>6. CASE cleanUP(1, ptr, gret) /\ ptr' = AfterCleanUP(ptr) /\ Flawed
  <2>1. MainTypes' /\ Gone(enclave_id)'
    BY <1>1, <1>6, FreedBuffers, CleanUpTypes DEF MainInv, MainTypes, RaTypes
  <2> QED
    BY <1>1, <1>6, <2>1, FreedBuffers, FailureInv
       DEF BeforeMsg0Answer, BeforeMsg1Answer, LateSteps
<1> QED
  BY <1>4, <1>5, <1>6 DEF verifyMSG2, NoCleanUP

LEMMA MainStartMsg3Inv == MainInv /\ StartMsg3 => MainInv'
<1> SUFFICES ASSUME MainInv, StartMsg3 PROVE MainInv'
  OBVIOUS
<1>1. /\ pc = "msg3" /\ pc' = "proc_msg2"
      /\ undef' = (undef \/ ptr["p_msg2_full"] = "freed")
      /\ UNCHANGED <<enclaveVars, gret, enclave_id, accepted, failedStep, faults, spVars,
                     memVars>>
  BY DEF StartMsg3, Goto
<1>2. UNCHANGED <<ptr, m0, m1, m2, m3, att, g_is_sp_registered, gbCount, sent, g_sp_db>>
  BY <1>1 DEF spVars, memVars
<1>3. ~accepted /\ ptr["p_att_result_msg_full"] # "live"
  BY <1>1, NothingAccepted DEF LateSteps
<1>4. MainTypes' /\ UNCHANGED <<life, ra, ga, gb, secret>>
  BY <1>1, <1>2, SteadyMainTypes DEF MainInv, MainTypes, RaTypes
<1>5. MainDoom'
  BY <1>1, <1>2, <1>4
     DEF MainInv, MainDoom, BeforeMsg0Answer, BeforeMsg1Answer, LateSteps, Msg2Ga, Gone
<1>6. MainEvidence'
  BY <1>1, <1>2, <1>3 DEF MainEvidence
<1>7. MainFlawless'
  BY <1>1, <1>2, <1>4
     DEF MainInv, MainFlawless, Flawless, InitedSteps, GotGaSteps, KeySteps, LateSteps, Live,
         SessionIsOurs
<1> QED
  BY <1>4, <1>5, <1>6, <1>7 DEF MainInv

(***************************************************************************)
(* An enclave accepts only the MSG2 for its own key, which makes nothing   *)
(* of the process have failed so far: MSG3 is of the newest exchange.      *)
(***************************************************************************)
LEMMA MainProcMsg2Inv == MainInv /\ ProcMsg2 => MainInv'
<1> SUFFICES ASSUME MainInv, ProcMsg2 PROVE MainInv'
  OBVIOUS
<1>1. /\ pc = "proc_msg2" /\ pc' = "send3"
      /\ sgx_ra_proc_msg2(enclave_id, m2)
      /\ ptr' = [ptr EXCEPT !["p_msg3"] = "live", !["p_msg3_full"] = "live"]
      /\ m3' = Msg3For(ga[enclave_id], m2.gb)
      /\ UNCHANGED <<gret, undef, enclave_id, accepted, failedStep, faults, spVars,
                     m0, m1, m2, att>>
  BY DEF ProcMsg2, Goto
<1>2. UNCHANGED <<g_is_sp_registered, gbCount, sent, g_sp_db>>
  BY <1>1 DEF spVars
<1>3. ~accepted /\ ptr["p_att_result_msg_full"] # "live"
  BY <1>1, NothingAccepted DEF LateSteps
<1>4. /\ enclave_id \in EnclaveIds /\ life[enclave_id] = "live" /\ ra[enclave_id] = "get_gaed"
      /\ m2.sign_gb_ga = <<m2.gb, ga[enclave_id]>>
      /\ ra' = [ra EXCEPT ![enclave_id] = "proc_msg2ed"]
      /\ gb' = [gb EXCEPT ![enclave_id] = m2.gb]
      /\ UNCHANGED <<life, ga, secret>>
  BY <1>1 DEF sgx_ra_proc_msg2, AcceptsMsg2, Live
<1>5. ga[enclave_id] = enclave_id /\ enclave_id # 0
  BY <1>4, EnclaveIdsAssumption DEF MainInv, MainTypes
<1>6. /\ ~failedStep /\ m2.gb = gbCount /\ <<enclave_id, gbCount>> \in sent
  BY <1>1, <1>4, <1>5 DEF MainInv, MainDoom, LateSteps, Gone, Msg2Ga
<1>7. /\ ra'[enclave_id] = "proc_msg2ed" /\ gb'[enclave_id] = m2.gb
      /\ IsPerEnclave(ra') /\ IsPerEnclave(gb')
      /\ \A e \in EnclaveIds : ra'[e] = "get_gaed" => ga'[e] = e
  BY <1>4 DEF MainInv, MainTypes, RaTypes, IsPerEnclave
<1>8. /\ ptr' \in [Buffers -> {"null", "live", "freed"}]
      /\ ptr'["p_att_result_msg_full"] # "live"
  BY <1>1, <1>3 DEF MainInv, MainTypes, RaTypes, Buffers
<1>9. MainTypes'
  BY <1>1, <1>4, <1>7, <1>8 DEF MainInv, MainTypes, RaTypes, IsPerEnclave, Born
<1>10. MainDoom'
  BY <1>1 DEF MainDoom, BeforeMsg0Answer, BeforeMsg1Answer, LateSteps
<1>11. KeysOf(enclave_id)' = <<enclave_id, m2.gb>>
  BY <1>1, <1>4, <1>5, <1>7 DEF KeysOf
<1>12. MainEvidence'
  BY <1>1, <1>2, <1>3, <1>6, <1>8, <1>11 DEF MainEvidence, LatestExchange
<1>13. MainFlawless'
  <2> SUFFICES ASSUME Flawless' PROVE MainFlawless'
    BY DEF MainFlawless
  <2>1. Flawless
    BY <1>1 DEF Flawless
  <2>2. /\ ~undef /\ gret = "ok" /\ g_is_sp_registered
        /\ SessionIsOurs /\ m2 = Msg2For(g_sp_db)
    BY <1>1, <2>1 DEF MainInv, MainFlawless, GotGaSteps, LateSteps
  <2>3. m2.gb = g_sp_db.gb
    BY <2>2 DEF Msg2For
  <2>4. m3' = Msg3For(enclave_id, g_sp_db.gb)
    BY <1>1, <1>5, <2>3
  <2>5. Live(enclave_id)' /\ HasKeys(enclave_id)' /\ SessionIsOurs'
    BY <1>1, <1>2, <1>4, <1>7, <2>2 DEF Live, HasKeys, SessionIsOurs
  <2> QED
    BY <1>1, <1>2, <1>11, <2>2, <2>3, <2>4, <2>5
       DEF MainFlawless, InitedSteps, GotGaSteps, KeySteps, LateSteps
<1> QED
  BY <1>9, <1>10, <1>12, <1>13 DEF MainInv

LEMMA MainProcMsg2FailsInv == MainInv /\ ProcMsg2Fails => MainInv'
<1> SUFFICES ASSUME MainInv, ProcMsg2Fails PROVE MainInv'
  OBVIOUS
<1>1. /\ pc = "proc_msg2" /\ pc' = "send3" /\ m3' = NoMsg3 /\ failedStep' = TRUE
      /\ ptr' = [AfterCleanUP(ptr) EXCEPT !["p_msg3_full"] = "live"]
      /\ UNCHANGED <<enclave_id, accepted, faults, spVars, m0, m2>>
  BY DEF ProcMsg2Fails, Goto
<1>2. PICK n : cleanUP(n, ptr, gret)
  BY DEF ProcMsg2Fails
<1>3. /\ ptr' \in [Buffers -> {"null", "live", "freed"}] /\ ptr'["p_msg1_full"] = "null"
      /\ ptr'["p_att_result_msg_full"] # "live"
  BY <1>1, FreedBuffers DEF Buffers
<1>4. MainTypes' /\ Gone(enclave_id)'
  BY <1>1, <1>2, <1>3, CleanUpTypes DEF MainInv, MainTypes, RaTypes
<1>5. "busy" \in faults \/ "sdk" \in faults \/ ~AcceptsMsg2(enclave_id, m2)
  BY DEF ProcMsg2Fails, MayFail
<1>6. Flawed
  <2> SUFFICES ASSUME Flawless PROVE AcceptsMsg2(enclave_id, m2)
    BY <1>1, <1>5 DEF Flawed, Flawless
  <2>1. /\ Live(enclave_id) /\ ra[enclave_id] = "get_gaed"
        /\ SessionIsOurs /\ m2 = Msg2For(g_sp_db)
    BY <1>1 DEF MainInv, MainFlawless, GotGaSteps, LateSteps
  <2>2. ga[enclave_id] = enclave_id
    BY <2>1 DEF MainInv, MainTypes, Live
  <2> QED
    BY <2>1, <2>2 DEF AcceptsMsg2, Msg2For, SessionIsOurs, OneExchange
<1> QED
  BY <1>1, <1>3, <1>4, <1>6, FailureInv DEF BeforeMsg0Answer, BeforeMsg1Answer, LateSteps

----------------------------------------------------------------------------
(***************************************************************************)
(* MSG3's answer: only a MSG3 with a body is accepted.  Without faults it  *)
(* is, and the result message is keyed with what the enclave holds.        *)
(***************************************************************************)
LEMMA ToServerMsg3Inv == MainInv /\ ToServerMsg3 => MainInv'
<1> SUFFICES ASSUME MainInv, ToServerMsg3 PROVE MainInv'
  OBVIOUS
<1>1. /\ pc = "send3" /\ pc' = "verify_mac" /\ gret' = CodeOf(spRet')
      /\ failedStep' = (failedStep \/ FALSE)
      /\ UNCHANGED <<enclaveVars, undef, enclave_id, faults, m0, m1, m2, m3>>
  BY DEF ToServerMsg3, ToServer, MainGoto, Goto, NoCleanUPLocal
<1>2. UNCHANGED <<g_is_sp_registered, gbCount, sent, g_sp_db>>
  BY DEF ToServerMsg3, sp_ra_proc_msg3_req
<1>3. failedStep' = failedStep
  BY <1>1 DEF MainInv, MainTypes, RaTypes
<1>4. ~accepted /\ ptr["p_att_result_msg_full"] # "live"
  BY <1>1, NothingAccepted
<1>5. PICK fault \in (IF "sp" \in faults THEN Msg3Faults ELSE {"none"}) :
        sp_ra_proc_msg3_req(m3, fault)
  BY DEF ToServerMsg3
<1>6. UNCHANGED <<life, ra, ga, gb, secret>>
  BY <1>1 DEF enclaveVars
<1>7. MainDoom'
  BY <1>1 DEF MainDoom, BeforeMsg0Answer, BeforeMsg1Answer, LateSteps
<1>8. CASE spRet' = "SP_OK"
  <2>1. /\ accepted' = TRUE /\ att' = AttResult /\ gret' = "ok"
        /\ ptr' = [ptr EXCEPT !["p_att_result_msg_full"] = "live"]
    BY <1>1, <1>8 DEF ToServerMsg3, CodeOf
  <2>2. m3 # NoMsg3
    BY <1>5, <1>8, Msg3Accepts DEF sp_ra_proc_msg3_req
  <2>3. LatestExchange
    BY <1>1, <2>2 DEF MainInv, MainEvidence
  <2>4. LatestExchange'
    BY <1>1, <1>2, <1>3, <1>6, <2>3 DEF LatestExchange, KeysOf
  <2>5. /\ ptr' \in [Buffers -> {"null", "live", "freed"}]
        /\ ptr'["p_att_result_msg_full"] = "live"
    BY <2>1 DEF MainInv, MainTypes, RaTypes, Buffers
  <2>6. MainTypes'
    BY <1>1, <1>3, <2>1, <2>5, SteadyMainTypes DEF MainInv, MainTypes, RaTypes, Codes
  <2>7. MainEvidence'
    BY <1>1, <2>1, <2>4 DEF MainEvidence, BeforeMsg0Answer, BeforeMsg1Answer, LateSteps
  <2>8. MainFlawless'
    <3> SUFFICES ASSUME Flawless' PROVE MainFlawless'
      BY DEF MainFlawless
    <3>1. Flawless
      BY <1>1 DEF Flawless
    <3>2. /\ ~undef /\ Live(enclave_id) /\ HasKeys(enclave_id) /\ SessionIsOurs
          /\ KeysOf(enclave_id) = <<enclave_id, g_sp_db.gb>>
      BY <1>1, <3>1 DEF MainInv, MainFlawless, KeySteps
    <3>3. att' = [mk |-> KeysOf(enclave_id), sk |-> KeysOf(enclave_id)]
      BY <2>1, <3>2 DEF AttResult, ias_verify_attestation_evidence, SessionIsOurs, OneExchange
    <3>4. /\ Live(enclave_id)' /\ HasKeys(enclave_id)' /\ SessionIsOurs'
          /\ KeysOf(enclave_id)' = KeysOf(enclave_id)
      BY <1>1, <1>2, <1>6, <3>2 DEF Live, HasKeys, SessionIsOurs, KeysOf
    <3> QED
      BY <1>1, <1>2, <2>1, <2>5, <3>2, <3>3, <3>4
         DEF MainFlawless, InitedSteps, GotGaSteps, KeySteps, LateSteps
  <2> QED
    BY <1>7, <2>6, <2>7, <2>8 DEF MainInv
<1>9. CASE spRet' # "SP_OK"
  <2>1. gret' = "error" /\ UNCHANGED <<accepted, ptr>>
    BY <1>1, <1>9 DEF ToServerMsg3, CodeOf
  <2>2. MainTypes'
    BY <1>1, <1>3, <2>1, SteadyMainTypes DEF MainInv, MainTypes, RaTypes, Codes
  <2>3. MainEvidence'
    BY <1>1, <1>4, <2>1 DEF MainEvidence
  <2>4. ~Flawless
    <3> SUFFICES ASSUME Flawless PROVE spRet' = "SP_OK"
      BY <1>9
    <3>1. /\ g_is_sp_registered /\ SessionIsOurs /\ Live(enclave_id)
          /\ m3 = Msg3For(enclave_id, g_sp_db.gb)
      BY <1>1 DEF MainInv, MainFlawless, KeySteps
    <3>2. enclave_id # 0
      BY <3>1, EnclaveIdsAssumption DEF Live
    <3>3. m3 # NoMsg3 /\ m3.ga = g_sp_db.ga /\ m3.mac = g_sp_db.smk /\ ReportMatches(m3)
      BY <3>1, <3>2 DEF Msg3For, NoMsg3, ReportMatches, SessionIsOurs, OneExchange
    <3>4. fault = "none"
      BY <1>5 DEF Flawless
    <3>5. Msg3Ret(m3, "none") = "SP_OK"
      BY <3>1, <3>3 DEF Msg3Ret, IntegrityRet
    <3> QED
      BY <1>5, <3>4, <3>5 DEF sp_ra_proc_msg3_req
  <2>5. MainFlawless'
    BY <1>1, <2>4 DEF Flawless, MainFlawless
  <2> QED
    BY <1>7, <2>2, <2>3, <2>5 DEF MainInv
<1> QED
  BY <1>8, <1>9

(* After the answer to MSG3 what an acceptance rests on stays.             *)
LEMMA LatestKept ==
  ASSUME MainInv, UNCHANGED <<accepted, failedStep, enclave_id, gbCount, sent, ga, gb>>
  PROVE  accepted' => LatestExchange'
BY DEF MainInv, MainEvidence, LatestExchange, KeysOf

LEMMA NoAttResultInv == MainInv /\ NoAttResult => MainInv'
<1> SUFFICES ASSUME MainInv, NoAttResult PROVE MainInv'
  OBVIOUS
<1>1. /\ pc = "verify_mac" /\ pc' = "null_write" /\ cleanUP(1, ptr, "error")
      /\ ptr' = AfterCleanUP(ptr)
      /\ UNCHANGED <<enclave_id, accepted, failedStep, faults, spVars, m0>>
  BY DEF NoAttResult, MainGoto, Goto
<1>2. UNCHANGED <<gbCount, sent>>
  BY <1>1 DEF spVars
<1>3. MainTypes' /\ UNCHANGED <<ga, gb>>
  BY <1>1, FreedBuffers, CleanUpTypes DEF MainInv, MainTypes, RaTypes, Codes
<1>4. MainDoom'
  BY <1>1 DEF MainDoom, BeforeMsg0Answer, BeforeMsg1Answer, LateSteps
<1>5. MainEvidence'
  BY <1>1, <1>2, <1>3, FreedBuffers, LatestKept
     DEF MainEvidence, BeforeMsg0Answer, BeforeMsg1Answer, LateSteps
<1>6. ~Flawless
  BY DEF NoAttResult, MainGoto, Goto, MainInv, MainFlawless
<1>7. MainFlawless'
  BY <1>1, <1>6 DEF Flawless, MainFlawless
<1> QED
  BY <1>3, <1>4, <1>5, <1>7 DEF MainInv

(* The MAC is right, or cleanUP takes the enclave away and leaves an error. *)
LEMMA VerifyAttResultInv == MainInv /\ VerifyAttResult => MainInv'
<1> SUFFICES ASSUME MainInv, VerifyAttResult PROVE MainInv'
  OBVIOUS
<1>1. /\ pc = "verify_mac" /\ pc' = "put_secret" /\ ptr["p_att_result_msg_full"] = "live"
      /\ UNCHANGED <<enclave_id, accepted, failedStep, faults, spVars, m0, m1, m2, m3, att>>
  BY DEF VerifyAttResult, VerifyMac, Goto
<1>2. UNCHANGED <<g_is_sp_registered, gbCount, sent, g_sp_db>>
  BY <1>1 DEF spVars
<1>3. accepted
  BY <1>1 DEF MainInv, MainEvidence
<1>4. MainDoom'
  BY <1>1 DEF MainDoom, BeforeMsg0Answer, BeforeMsg1Answer, LateSteps
<1>5. CASE gret' = "ok" /\ UNCHANGED <<enclaveVars, undef, ptr>>
  <2>1. MainTypes' /\ UNCHANGED <<life, ra, ga, gb, secret>>
    BY <1>1, <1>5, SteadyMainTypes DEF MainInv, MainTypes, RaTypes, Codes
  <2>2. MainEvidence'
    BY <1>1, <1>2, <1>3, <1>5, <2>1, LatestKept
       DEF MainEvidence, BeforeMsg0Answer, BeforeMsg1Answer, LateSteps
  <2>3. MainFlawless'
    BY <1>1, <1>2, <1>5, <2>1
       DEF MainInv, MainFlawless, Flawless, InitedSteps, GotGaSteps, KeySteps, LateSteps, Live,
           HasKeys, KeysOf, SessionIsOurs
  <2> QED
    BY <1>4, <2>1, <2>2, <2>3 DEF MainInv
<1>6. CASE /\ MayFail(verify_att_result_mac(enclave_id, att.mk))
           /\ cleanUP(1, ptr, "error") /\ ptr' = AfterCleanUP(ptr)
  <2>1. MainTypes' /\ Gone(enclave_id)' /\ gret' = "error" /\ UNCHANGED <<ga, gb>>
    BY <1>1, <1>6, FreedBuffers, CleanUpTypes DEF MainInv, MainTypes, RaTypes, Codes
  <2>2. MainEvidence'
    BY <1>1, <1>2, <1>3, <1>6, <2>1, FreedBuffers, LatestKept
       DEF MainEvidence, BeforeMsg0Answer, BeforeMsg1Answer, LateSteps
  <2>3. ~Flawless
    BY <1>1, <1>6
       DEF MainInv, MainFlawless, Flawless, KeySteps, MayFail, verify_att_result_mac
  <2>4. MainFlawless'
    BY <1>1, <2>3 DEF Flawless, MainFlawless
  <2> QED
    BY <1>4, <2>1, <2>2, <2>4 DEF MainInv
<1> QED
  BY <1>5, <1>6 DEF VerifyAttResult, VerifyMac

(***************************************************************************)
(* put_secret_data stores the secret under the keys of its exchange.  When *)
(* it fails cleanUP destroys the enclave, whatever code is left; and after *)
(* a failed MAC check there is no enclave to put a secret into.            *)
(***************************************************************************)
LEMMA MainPutSecretInv == MainInv /\ MainPutSecret => MainInv'
<1> SUFFICES ASSUME MainInv, PutSecret PROVE MainInv'
  BY DEF MainPutSecret
<1>1. /\ pc = "put_secret" /\ pc' = "report"
      /\ UNCHANGED <<enclave_id, accepted, failedStep, faults, spVars, m0, m1, m2, m3, att>>
  BY DEF PutSecret, Goto
<1>2. UNCHANGED <<g_is_sp_registered, gbCount, sent, g_sp_db>>
  BY <1>1 DEF spVars
<1>3. accepted
  BY <1>1 DEF MainInv, MainEvidence
<1>4. MainDoom'
  BY <1>1 DEF MainDoom, BeforeMsg0Answer, BeforeMsg1Answer, LateSteps
<1>5. Flawless => /\ ~undef /\ ptr["p_att_result_msg_full"] = "live"
                  /\ DecryptsSecret(enclave_id, att.sk)
  BY <1>1 DEF MainInv, MainFlawless, KeySteps, DecryptsSecret
<1>6. CASE /\ put_secret_data(enclave_id, att.sk) /\ gret' = "ok" /\ UNCHANGED <<undef, ptr>>
  <2>1. /\ enclave_id \in EnclaveIds /\ life[enclave_id] = "live" /\ att.sk = KeysOf(enclave_id)
        /\ secret' = [secret EXCEPT ![enclave_id] = att.sk]
        /\ UNCHANGED <<life, ra, ga, gb>>
    BY <1>6 DEF put_secret_data, DecryptsSecret, HasKeys, Live
  <2>2. ~Gone(enclave_id)
    BY <2>1 DEF Gone
  <2>3. ptr["p_att_result_msg_full"] = "live"
    BY <1>1, <2>2 DEF MainInv, MainEvidence
  <2>4. secret'[enclave_id] = KeysOf(enclave_id) /\ IsPerEnclave(secret')
    BY <2>1 DEF MainInv, MainTypes, IsPerEnclave
  <2>5. Provisioned'
    BY <1>1, <2>1, <2>4 DEF Provisioned, KeysOf
  <2>6. MainTypes'
    BY <1>1, <1>6, <2>1, <2>4 DEF MainInv, MainTypes, RaTypes, IsPerEnclave, Born, Codes
  <2>7. MainEvidence'
    BY <1>1, <1>2, <1>3, <1>6, <2>1, <2>5, LatestKept
       DEF MainEvidence, BeforeMsg0Answer, BeforeMsg1Answer, LateSteps
  <2>8. MainFlawless'
    BY <1>1, <1>5, <1>6
       DEF MainFlawless, Flawless, InitedSteps, GotGaSteps, KeySteps, LateSteps
  <2> QED
    BY <1>4, <2>6, <2>7, <2>8 DEF MainInv
<1>7. CASE /\ MayFail(DecryptsSecret(enclave_id, att.sk))
           /\ \E g \in Codes : cleanUP(1, ptr, g)
           /\ ptr' = AfterCleanUP(ptr)
  <2>1. PICK g \in Codes : cleanUP(1, ptr, g)
    BY <1>7
  <2>2. /\ MainTypes' /\ Gone(enclave_id)' /\ gret' \in {g, "error"}
        /\ UNCHANGED <<ga, gb>>
    BY <1>1, <1>7, <2>1, FreedBuffers, CleanUpTypes DEF MainInv, MainTypes, RaTypes
  <2>3. gret' \in {"ok", "error"} /\ Provisioned'
    BY <2>2 DEF Codes, Provisioned, Live, Gone
  <2>4. MainEvidence'
    BY <1>1, <1>2, <1>3, <1>7, <2>2, <2>3, FreedBuffers, LatestKept
       DEF MainEvidence, BeforeMsg0Answer, BeforeMsg1Answer, LateSteps
  <2>5. ~Flawless
    BY <1>5, <1>7 DEF MayFail, Flawless
  <2>6. MainFlawless'
    BY <1>1, <2>5 DEF Flawless, MainFlawless
  <2> QED
    BY <1>4, <2>2, <2>4, <2>6 DEF MainInv
<1>8. CASE /\ ptr["p_att_result_msg_full"] = "freed" /\ undef' = TRUE
           /\ UNCHANGED <<enclaveVars, gret, ptr>>
  <2>1. MainTypes' /\ UNCHANGED <<life, ra, ga, gb, secret>>
    BY <1>1, <1>8, SteadyMainTypes DEF MainInv, MainTypes, RaTypes
  <2>2. gret = "error" /\ Gone(enclave_id)
    BY <1>1, <1>8 DEF MainInv, MainEvidence
  <2>3. MainEvidence'
    BY <1>1, <1>2, <1>3, <1>8, <2>1, <2>2, LatestKept
       DEF MainEvidence, BeforeMsg0Answer, BeforeMsg1Answer, LateSteps, Gone
  <2>4. MainFlawless'
    BY <1>1, <1>5, <1>8 DEF Flawless, MainFlawless
  <2> QED
    BY <1>4, <2>1, <2>3, <2>4 DEF MainInv
<1> QED
  BY <1>6, <1>7, <1>8 DEF PutSecret

LEMMA MainExitInv == MainInv /\ MainExit => MainInv'
<1> SUFFICES ASSUME MainInv, MainExit PROVE MainInv'
  OBVIOUS
<1>1. /\ pc = "report" /\ pc' = "stopped"
      /\ verdict' = IF gret = "ok" THEN "Success" ELSE "Failed"
      /\ UNCHANGED <<enclaveVars, gret, undef, enclave_id, accepted, failedStep, faults,
                     memVars, spVars>>
  BY DEF MainExit
<1>2. UNCHANGED <<ptr, m0, m1, m2, m3, att, g_is_sp_registered, gbCount, sent, g_sp_db>>
  BY <1>1 DEF memVars, spVars
<1>3. MainTypes' /\ UNCHANGED <<life, ra, ga, gb, secret>>
  BY <1>1, <1>2, SteadyMainTypes DEF MainInv, MainTypes, RaTypes
<1>4. MainDoom'
  BY <1>1 DEF MainDoom, BeforeMsg0Answer, BeforeMsg1Answer, LateSteps
<1>5. /\ accepted
      /\ (gret = "ok" /\ Provisioned) \/ (gret = "error" /\ Gone(enclave_id))
  BY <1>1 DEF MainInv, MainEvidence
<1>6. (Provisioned => Provisioned') /\ (Gone(enclave_id) => Gone(enclave_id)')
  BY <1>1, <1>3 DEF Provisioned, KeysOf, Live, Gone
<1>7. MainEvidence'
  BY <1>1, <1>2, <1>3, <1>5, <1>6, LatestKept
     DEF MainEvidence, BeforeMsg0Answer, BeforeMsg1Answer, LateSteps
<1>8. MainFlawless'
  BY <1>1, <1>2
     DEF MainInv, MainFlawless, Flawless, InitedSteps, GotGaSteps, KeySteps, LateSteps
<1> QED
  BY <1>3, <1>4, <1>7, <1>8 DEF MainInv

----------------------------------------------------------------------------
(* The process dies: by a null pointer, or by what a corrupt heap does.    *)
LEMMA MainDeathInv ==
  MainInv /\ (NullMsg2 \/ NullWrite \/ UndefinedAbort) => MainInv'
<1> SUFFICES ASSUME MainInv, NullMsg2 \/ NullWrite \/ UndefinedAbort PROVE MainInv'
  OBVIOUS
<1>1. /\ pc' = "dead"
      /\ UNCHANGED <<enclaveVars, gret, undef, enclave_id, accepted, failedStep, faults,
                     memVars, spVars>>
  BY DEF NullMsg2, NullWrite, UndefinedAbort, Goto, NoCleanUP
<1>2. UNCHANGED <<ptr, m0, gbCount, sent>>
  BY <1>1 DEF memVars, spVars
<1>3. MainTypes' /\ UNCHANGED <<life, ra, ga, gb, secret>>
  BY <1>1, <1>2, SteadyMainTypes DEF MainInv, MainTypes, RaTypes
<1>4. MainDoom'
  BY <1>1 DEF MainDoom, BeforeMsg0Answer, BeforeMsg1Answer, LateSteps
<1>5. MainEvidence'
  BY <1>1, <1>2, <1>3, LatestKept
     DEF MainInv, MainEvidence, BeforeMsg0Answer, BeforeMsg1Answer, LateSteps
<1>6. ~Flawless
  BY DEF NullMsg2, NullWrite, UndefinedAbort, Goto, MainInv, MainFlawless, LateSteps
<1>7. MainFlawless'
  BY <1>1, <1>2, <1>6 DEF Flawless, MainFlawless
<1> QED
  BY <1>3, <1>4, <1>5, <1>7 DEF MainInv

LEMMA MainOutOfMemoryInv == MainInv /\ OutOfMemory => MainInv'
<1> SUFFICES ASSUME MainInv, OutOfMemory PROVE MainInv'
  OBVIOUS
<1>1. /\ pc \in {"config", "msg1", "proc_msg2"} /\ pc' = "null_write"
      /\ cleanUP(1, ptr, gret) /\ failedStep' = TRUE /\ ptr' = AfterCleanUP(ptr)
      /\ "alloc" \in faults
      /\ UNCHANGED <<enclave_id, accepted, faults, spVars, m0, m2>>
  BY DEF OutOfMemory, Goto
<1>2. MainTypes' /\ Gone(enclave_id)'
  BY <1>1, FreedBuffers, CleanUpTypes DEF MainInv, MainTypes, RaTypes
<1> QED
  BY <1>1, <1>2, FreedBuffers, FailureInv
     DEF Flawed, BeforeMsg0Answer, BeforeMsg1Answer, LateSteps

(* The enclave is lost, and its secret with it: no cleanUP has run.        *)
LEMMA MainPowerLossInv == MainInv /\ PowerLoss => MainInv'
<1> SUFFICES ASSUME MainInv, PowerLoss PROVE MainInv'
  OBVIOUS
<1>1. /\ "power" \in faults
      /\ UNCHANGED <<pc, gret, undef, enclave_id, accepted, failedStep, faults, verdict,
                     ptr, m0, m1, m2, m3, att, g_is_sp_registered, gbCount, sent, g_sp_db>>
  BY DEF PowerLoss, appVars, memVars, spVars
<1>2. /\ life' = [e \in EnclaveIds |-> IF Live(e) THEN "lost" ELSE life[e]]
      /\ secret' = [e \in EnclaveIds |-> IF Live(e) THEN NoSecret ELSE secret[e]]
      /\ UNCHANGED <<ra, ga, gb>>
  BY DEF PowerLoss, PowerTransition
<1>3. life' \in [EnclaveIds -> Life] /\ IsPerEnclave(secret)'
  BY <1>2 DEF MainInv, MainTypes, RaTypes, Life, IsPerEnclave
<1>4. /\ Born(enclave_id)' /\ ~Live(enclave_id)'
      /\ Gone(enclave_id)' <=> Gone(enclave_id)
  BY <1>1, <1>2 DEF MainInv, MainTypes, Born, Live, Gone
<1>5. MainTypes'
  BY <1>1, <1>2, <1>3, <1>4 DEF MainInv, MainTypes, RaTypes, IsPerEnclave
<1>6. MainDoom'
  BY <1>1, <1>4 DEF MainInv, MainDoom, Msg2Ga
<1>7. Provisioned' /\ (LatestExchange' <=> LatestExchange)
  BY <1>1, <1>2, <1>4 DEF Provisioned, LatestExchange, KeysOf
<1>8. MainEvidence'
  BY <1>1, <1>4, <1>7 DEF MainInv, MainEvidence
<1>9. MainFlawless'
  BY <1>1 DEF MainFlawless, Flawless
<1> QED
  BY <1>5, <1>6, <1>8, <1>9 DEF MainInv

LEMMA MainPressKeyInv == MainInv /\ (PressKey \/ UNCHANGED vars) => MainInv'
<1> SUFFICES ASSUME MainInv, PressKey \/ UNCHANGED vars PROVE MainInv'
  OBVIOUS
<1>1. UNCHANGED <<pc, enclaveVars, gret, undef, enclave_id, accepted, failedStep, faults,
                  verdict, memVars, spVars>>
  BY DEF PressKey, vars, appVars
<1> QED
  BY <1>1, MainRests

LEMMA MainNextInv == MainInv /\ [MainNext]_vars => MainInv'
<1> SUFFICES ASSUME MainInv, [MainNext]_vars PROVE MainInv'
  OBVIOUS
<1>1. CASE MainConfig \/ MainInitEnclave \/ MainMsg0 \/ ToServerMsg0
  BY <1>1, MainConfigInv, MainCreateInv, MainRetryInv, MainInitRaInv, MainMsg0Inv,
     ToServerMsg0Inv DEF MainInitEnclave
<1>2. CASE MainMsg1 \/ ToServerMsg1 \/ MainVerifyMSG2
  BY <1>2, MainAllocMsg1Inv, MainBusyInv, MainGetMsg1Inv, MainGetMsg1FailsInv,
     ToServerMsg1Inv, MainVerify2Inv DEF MainMsg1, MainVerifyMSG2
<1>3. CASE MainMsg3 \/ ToServerMsg3
  BY <1>3, MainStartMsg3Inv, MainDeathInv, MainBusyInv, MainProcMsg2Inv,
     MainProcMsg2FailsInv, ToServerMsg3Inv DEF MainMsg3
<1>4. CASE NoAttResult \/ VerifyAttResult \/ MainPutSecret \/ NullWrite \/ MainExit
  BY <1>4, NoAttResultInv, VerifyAttResultInv, MainPutSecretInv, MainDeathInv, MainExitInv
<1>5. CASE main \/ PressKey \/ OutOfMemory \/ UndefinedAbort \/ PowerLoss \/ UNCHANGED vars
  BY <1>5, MainStarts, MainPressKeyInv, MainOutOfMemoryInv, MainDeathInv, MainPowerLossInv
<1> QED
  BY <1>1, <1>2, <1>3, <1>4, <1>5 DEF MainNext, MainStep

----------------------------------------------------------------------------
(***************************************************************************)
(* The invariant holds of every behaviour of main, whatever is pressed,    *)
(* fails or is lost; fairness plays no part in it.                         *)
(***************************************************************************)
THEOREM MainInvariance == MainSpec => []MainInv
<1>1. Init => MainInv
  BY MainInitInv
<1>2. MainInv /\ [MainNext]_vars => MainInv'
  BY MainNextInv
<1> QED
  BY <1>1, <1>2, PTL DEF MainSpec

(***************************************************************************)
(* main runs on after every failure of a call, and yet the provider        *)
(* accepts the evidence of no process in which one has failed, and only    *)
(* that of the exchange it has answered last.                              *)
(***************************************************************************)
THEOREM MainAcceptedOnlyFlawless == MainSpec => []AcceptedOnlyFlawless
<1>1. MainInv => AcceptedOnlyFlawless
  BY DEF MainInv, MainEvidence, LatestExchange, AcceptedOnlyFlawless
<1> QED
  BY <1>1, MainInvariance, PTL

(***************************************************************************)
(* The exit code tells the outcome: 0, and the enclave of this exchange    *)
(* was accepted and has its secret or is no more; not 0, and the enclave   *)
(* is no more; none, and a fault or an unsupported group is to blame.      *)
(***************************************************************************)
THEOREM MainExitTellsOutcome == MainSpec => []ExitTellsOutcome
<1>1. MainInv => ExitTellsOutcome
  <2> SUFFICES ASSUME MainInv PROVE ExitTellsOutcome
    OBVIOUS
  <2>1. ASSUME pc = "stopped", verdict = "Success"
        PROVE  /\ accepted /\ <<enclave_id, gbCount>> = KeysOf(enclave_id)
               /\ Provisioned
    BY <2>1 DEF MainInv, MainEvidence, LatestExchange
  <2>2. ASSUME pc = "stopped", verdict = "Failed" PROVE ~Live(enclave_id)
    BY <2>2 DEF MainInv, MainEvidence, Gone, Live
  <2>3. ASSUME pc = "dead" PROVE faults # {} \/ m0 \notin SupportedGids
    BY <2>3 DEF MainInv, MainFlawless, Flawless
  <2> QED
    BY <2>1, <2>2, <2>3 DEF ExitTellsOutcome, Provisioned
<1> QED
  BY <1>1, MainInvariance, PTL
=============================================================================
