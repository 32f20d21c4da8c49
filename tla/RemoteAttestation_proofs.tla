---------------------- MODULE RemoteAttestation_proofs ----------------------
(***************************************************************************)
(* The provider never issues a result from a mixed session, for any set of *)
(* groups and keys and any number of exchanges.  Then call_RA_SIM and the  *)
(* functions of isv_app.cpp, for any number of challenges, enclaves,       *)
(* groups and any set of faults: first, that they implement the abstract   *)
(* attestation; then their safety.                                         *)
(***************************************************************************)
EXTENDS RemoteAttestation, TLAPS

(***************************************************************************)
(* The strengthening.  VK is written last and g_b second: so when the      *)
(* stored VK is of the stored g_b, no MSG1 has been interrupted since VK   *)
(* was written, and the other keys belong to the same exchange.  For a VK  *)
(* left over from an older exchange to be told apart, every stored key     *)
(* must be of a g_b the provider has already generated.                    *)
(***************************************************************************)
VkIsOld == g_sp_db.vk[2] <= gbCount

VkCoversAll ==
  g_sp_db.vk[2] = g_sp_db.gb =>
    /\ g_sp_db.smk = g_sp_db.vk
    /\ g_sp_db.mk = g_sp_db.vk
    /\ g_sp_db.sk = g_sp_db.vk

GbIsNewest == g_sp_db.gb = gbCount

SpInv == SpTypeOK /\ VkIsOld /\ VkCoversAll /\ GbIsNewest /\ IssuedCoherent

----------------------------------------------------------------------------
(* What MSG1 leaves in g_sp_db has the type of a session.                  *)
LEMMA DbAfterType ==
  ASSUME g_sp_db \in Session, NEW x \in Nat, NEW y \in Nat, NEW done \in Msg1Steps
  PROVE  DbAfter(x, y, done) \in Session
BY DEF DbAfter, derive_key, Session, Exchange, Msg1Steps

(***************************************************************************)
(* MSG3 succeeds only when g_a, the MAC and the report data all match.     *)
(***************************************************************************)
LEMMA Msg3Accepts ==
  ASSUME NEW m, NEW fault, Msg3Ret(m, fault) = "SP_OK"
  PROVE  /\ m # NoMsg3
         /\ m.ga = g_sp_db.ga
         /\ m.mac = g_sp_db.smk
         /\ ReportMatches(m)
BY DEF Msg3Ret, IntegrityRet

LEMMA Msg3RetType ==
  ASSUME NEW m, NEW fault
  PROVE  Msg3Ret(m, fault) \in SpRets
BY DEF Msg3Ret, IntegrityRet, SpRets

----------------------------------------------------------------------------
LEMMA SpInitInv == SpInit => SpInv
<1> SUFFICES ASSUME SpInit PROVE SpInv
  OBVIOUS
<1>1. SpTypeOK
  BY DEF SpInit, SpTypeOK, NoSession, Session, NoKey, Exchange, SpRets
<1>2. VkIsOld /\ VkCoversAll /\ GbIsNewest /\ IssuedCoherent
  BY DEF SpInit, VkIsOld, VkCoversAll, GbIsNewest, IssuedCoherent, NoSession, NoKey
<1> QED
  BY <1>1, <1>2 DEF SpInv

(* A MSG1 that stops after any number of writes, or none.                  *)
LEMMA Msg1Db ==
  ASSUME SpInv, NEW x \in Nat, NEW done \in Msg1Steps,
         gbCount' = IF done >= 2 THEN gbCount + 1 ELSE gbCount,
         g_sp_db' = DbAfter(x, gbCount', done)
  PROVE  /\ gbCount' \in Nat /\ g_sp_db' \in Session
         /\ VkIsOld' /\ VkCoversAll' /\ GbIsNewest'
<1>1. gbCount' \in Nat
  BY DEF SpInv, SpTypeOK, Msg1Steps
<1>2. g_sp_db' \in Session
  BY <1>1, DbAfterType DEF SpInv, SpTypeOK
<1>3. CASE done < 2
  <2>1. gbCount' = gbCount
    BY <1>3 DEF Msg1Steps
  <2>2. /\ g_sp_db'.gb = g_sp_db.gb /\ g_sp_db'.smk = g_sp_db.smk
        /\ g_sp_db'.mk = g_sp_db.mk /\ g_sp_db'.sk = g_sp_db.sk
        /\ g_sp_db'.vk = g_sp_db.vk
    BY <1>3 DEF DbAfter, Msg1Steps
  <2> QED
    BY <1>1, <1>2, <2>1, <2>2 DEF SpInv, VkIsOld, VkCoversAll, GbIsNewest
<1>4. CASE done >= 2 /\ done < 6
  <2>1. gbCount' = gbCount + 1
    BY <1>4
  <2>2. g_sp_db'.gb = gbCount' /\ g_sp_db'.vk = g_sp_db.vk
    BY <1>4 DEF DbAfter, Msg1Steps
  <2>3. g_sp_db.vk[2] \in Nat /\ g_sp_db.vk[2] <= gbCount /\ gbCount \in Nat
    BY DEF SpInv, SpTypeOK, Session, Exchange, VkIsOld
  <2> QED
    BY <1>1, <1>2, <2>1, <2>2, <2>3 DEF VkIsOld, VkCoversAll, GbIsNewest
<1>5. CASE done = 6
  <2>1. /\ g_sp_db'.gb = gbCount' /\ g_sp_db'.smk = <<x, gbCount'>>
        /\ g_sp_db'.mk = <<x, gbCount'>> /\ g_sp_db'.sk = <<x, gbCount'>>
        /\ g_sp_db'.vk = <<x, gbCount'>>
    BY <1>5 DEF DbAfter, derive_key
  <2> QED
    BY <1>1, <1>2, <2>1 DEF VkIsOld, VkCoversAll, GbIsNewest
<1> QED
  BY <1>3, <1>4, <1>5 DEF Msg1Steps

(* A MSG3 that succeeds belongs to the exchange of the whole session.      *)
LEMMA Msg3Coherent ==
  ASSUME SpInv, NEW x \in sent, NEW fault,
         Msg3Ret(Msg3For(x[1], x[2]), fault) = "SP_OK"
  PROVE  OneExchange(g_sp_db) /\ <<g_sp_db.ga, g_sp_db.gb>> = x /\ x[2] = gbCount
<1> DEFINE m == Msg3For(x[1], x[2])
<1>1. m.ga = g_sp_db.ga /\ m.mac = g_sp_db.smk /\ ReportMatches(m)
  BY Msg3Accepts
<1>2. x = <<x[1], x[2]>>
  BY DEF SpInv, SpTypeOK, Exchange
<1>3. /\ g_sp_db.ga = x[1] /\ g_sp_db.gb = x[2]
      /\ g_sp_db.smk = <<x[1], x[2]>> /\ g_sp_db.vk = <<x[1], x[2]>>
  BY <1>1 DEF Msg3For, ReportMatches
<1>4. g_sp_db.mk = g_sp_db.vk /\ g_sp_db.sk = g_sp_db.vk
  BY <1>3 DEF SpInv, VkCoversAll
<1> QED
  BY <1>2, <1>3, <1>4 DEF OneExchange, SpInv, GbIsNewest

----------------------------------------------------------------------------
LEMMA SpNextInv == SpInv /\ [SpNext]_spVars => SpInv'
<1> SUFFICES ASSUME SpInv, [SpNext]_spVars PROVE SpInv'
  OBVIOUS
<1> USE KeysAssumption
<1>1. ASSUME NEW gid \in Gids, sp_ra_proc_msg0_req(gid) PROVE SpInv'
  <2>1. SpTypeOK'
    BY <1>1 DEF sp_ra_proc_msg0_req, SpInv, SpTypeOK, SpRets
  <2>2. VkIsOld' /\ VkCoversAll' /\ GbIsNewest' /\ IssuedCoherent'
    BY <1>1 DEF sp_ra_proc_msg0_req, SpInv, VkIsOld, VkCoversAll, GbIsNewest,
                IssuedCoherent, OneExchange
  <2> QED
    BY <2>1, <2>2 DEF SpInv
<1>2. ASSUME NEW x \in GaKeys, Msg1Succeeds(x) PROVE SpInv'
  <2>1. x \in Nat /\ 6 \in Msg1Steps
    BY DEF Msg1Steps
  <2>2. /\ gbCount' \in Nat /\ g_sp_db' \in Session
        /\ VkIsOld' /\ VkCoversAll' /\ GbIsNewest'
    BY <1>2, <2>1, Msg1Db DEF Msg1Succeeds
  <2>3. SpTypeOK'
    BY <1>2, <2>1, <2>2 DEF Msg1Succeeds, SpInv, SpTypeOK, SpRets, Exchange
  <2>4. IssuedCoherent'
    BY <1>2 DEF Msg1Succeeds, SpInv, IssuedCoherent, OneExchange
  <2> QED
    BY <2>2, <2>3, <2>4 DEF SpInv
<1>3. ASSUME NEW x \in GaKeys, NEW done \in Msg1Steps, Msg1Fails(x, done)
      PROVE  SpInv'
  <2>1. x \in Nat
    OBVIOUS
  <2>2. /\ gbCount' \in Nat /\ g_sp_db' \in Session
        /\ VkIsOld' /\ VkCoversAll' /\ GbIsNewest'
    BY <1>3, <2>1, Msg1Db DEF Msg1Fails
  <2>3. SpTypeOK'
    BY <1>3, <2>2 DEF Msg1Fails, SpInv, SpTypeOK, SpRets
  <2>4. IssuedCoherent'
    BY <1>3 DEF Msg1Fails, SpInv, IssuedCoherent, OneExchange
  <2> QED
    BY <2>2, <2>3, <2>4 DEF SpInv
<1>4. CASE Msg1Unregistered
  BY <1>4 DEF Msg1Unregistered, SpInv, SpTypeOK, SpRets, VkIsOld, VkCoversAll,
              GbIsNewest, IssuedCoherent, OneExchange
<1>5. ASSUME NEW m, NEW fault, sp_ra_proc_msg3_req(m, fault),
             Msg3Ret(m, fault) = "SP_OK" =>
               OneExchange(g_sp_db) /\ <<g_sp_db.ga, g_sp_db.gb>> \in sent
      PROVE  SpInv'
  <2>1. SpTypeOK'
    BY <1>5, Msg3RetType DEF sp_ra_proc_msg3_req, SpInv, SpTypeOK
  <2>2. VkIsOld' /\ VkCoversAll' /\ GbIsNewest'
    BY <1>5 DEF sp_ra_proc_msg3_req, SpInv, VkIsOld, VkCoversAll, GbIsNewest
  <2>3. IssuedCoherent'
    BY <1>5 DEF sp_ra_proc_msg3_req, SpInv, IssuedCoherent, OneExchange
  <2> QED
    BY <2>1, <2>2, <2>3 DEF SpInv
<1>6. ASSUME NEW x \in sent, NEW fault \in Msg3Faults,
             sp_ra_proc_msg3_req(Msg3For(x[1], x[2]), fault)
      PROVE  SpInv'
  <2>1. Msg3Ret(Msg3For(x[1], x[2]), fault) = "SP_OK" =>
          OneExchange(g_sp_db) /\ <<g_sp_db.ga, g_sp_db.gb>> \in sent
    BY Msg3Coherent
  <2> QED
    BY <1>5, <1>6, <2>1
<1>7. CASE sp_ra_proc_msg3_req(NoMsg3, "none")
  <2>1. Msg3Ret(NoMsg3, "none") # "SP_OK"
    BY Msg3Accepts
  <2> QED
    BY <1>5, <1>7, <2>1
<1>8. CASE UNCHANGED spVars
  BY <1>8 DEF spVars, SpInv, SpTypeOK, VkIsOld, VkCoversAll, GbIsNewest,
              IssuedCoherent, OneExchange
<1> QED
  BY <1>1, <1>2, <1>3, <1>4, <1>6, <1>7, <1>8 DEF SpNext

(* The provider's invariant, on which the theorems below rest.             *)
THEOREM SpInvariance == SpSpec => []SpInv
<1>1. SpInit => SpInv
  BY SpInitInv
<1>2. SpInv /\ [SpNext]_spVars => SpInv'
  BY SpNextInv
<1> QED
  BY <1>1, <1>2, PTL DEF SpSpec

(***************************************************************************)
(* Type correctness of the provider: the state of service_provider.cpp.    *)
(***************************************************************************)
THEOREM SpTypeCorrect == SpSpec => []SpTypeOK
<1>1. SpInv => SpTypeOK
  BY DEF SpInv
<1> QED
  BY <1>1, SpInvariance, PTL

(***************************************************************************)
(* sp_ra_proc_msg3_req issues a result only from a session whose keys are  *)
(* all of one exchange, and only when MSG2 of that exchange was sent, no   *)
(* matter where earlier calls of sp_ra_proc_msg1_req stopped.              *)
(***************************************************************************)
THEOREM SpIssuedCoherent == SpSpec => []IssuedCoherent
<1>1. SpInv => IssuedCoherent
  BY DEF SpInv
<1> QED
  BY <1>1, SpInvariance, PTL

(***************************************************************************)
(* sp_ra_proc_msg3_req refuses the evidence of every exchange but the one  *)
(* whose g_b the provider generated last.                                  *)
(***************************************************************************)
THEOREM SpSupersededRefused == SpSpec => []SupersededRefused
<1>1. SpInv => SupersededRefused
  <2> SUFFICES ASSUME SpInv, NEW x \in sent,
                      Msg3Ret(Msg3For(x[1], x[2]), "none") = "SP_OK"
               PROVE  x[2] = gbCount
    BY DEF SupersededRefused
  <2> QED
    BY Msg3Coherent
<1> QED
  BY <1>1, SpInvariance, PTL

----------------------------------------------------------------------------
(* The steps of a challenge up to the answer to MSG3, and those after it.  *)
BeforeResult == {"config", "create", "init_ra", "msg0", "msg1", "get_msg1", "send1",
                 "verify2", "msg3", "proc_msg2", "send3", "null_write"}
AfterResult == {"verify_mac", "put_secret", "report"}

(***************************************************************************)
(* Before the answer to MSG3 the evidence of the challenge has not been    *)
(* accepted; after it, and until the challenge is answered, the code that  *)
(* call_RA_SIM holds says whether it was.  None of the functions that run  *)
(* after send_MSG3 touches that code: it is a local of call_RA_SIM.        *)
(***************************************************************************)
FlowInv ==
  /\ pc \in Steps
  /\ accepted \in BOOLEAN
  /\ pc \in BeforeResult => ~accepted
  /\ pc \in AfterResult => (accepted <=> jret = "ok")

(* The step of the abstract attestation that a step amounts to.            *)
Simulates == [Abstract!AttNext]_<<AttPhase, verdict, accepted>>

----------------------------------------------------------------------------
(* A step within a challenge that neither answers nor accepts anything.    *)
LEMMA QuietStep ==
  ASSUME NEW from \in BeforeResult, NEW to \in BeforeResult,
         pc = from, pc' = to, FlowInv, UNCHANGED <<verdict, accepted>>
  PROVE  FlowInv' /\ Simulates
<1>1. AttPhase = "running" /\ AttPhase' = "running"
  BY DEF AttPhase, BeforeResult
<1>2. FlowInv'
  BY DEF FlowInv, BeforeResult, AfterResult, Steps
<1> QED
  BY <1>1, <1>2 DEF Simulates

(* The same after the answer to MSG3.                                      *)
LEMMA QuietLateStep ==
  ASSUME NEW from \in AfterResult, NEW to \in AfterResult,
         pc = from, pc' = to, FlowInv, UNCHANGED <<verdict, accepted, jret>>
  PROVE  FlowInv' /\ Simulates
<1>1. AttPhase = "running" /\ AttPhase' = "running"
  BY DEF AttPhase, AfterResult
<1>2. FlowInv'
  BY DEF FlowInv, BeforeResult, AfterResult, Steps
<1> QED
  BY <1>1, <1>2 DEF Simulates

(* The death of the process, wherever it is.                               *)
LEMMA DeathStep ==
  ASSUME FlowInv, pc # "dead", pc' = "dead", UNCHANGED <<verdict, accepted>>
  PROVE  FlowInv' /\ Simulates
<1>1. AttPhase \in {"idle", "running", "refused"} /\ AttPhase' = "dead"
  BY DEF AttPhase
<1>2. Abstract!Die
  BY <1>1 DEF Abstract!Die
<1>3. FlowInv'
  BY DEF FlowInv, BeforeResult, AfterResult, Steps
<1> QED
  BY <1>2, <1>3 DEF Simulates, Abstract!AttNext

----------------------------------------------------------------------------
LEMMA ChallengeStep == FlowInv /\ call_RA_SIM => FlowInv' /\ Simulates
<1> SUFFICES ASSUME FlowInv, call_RA_SIM PROVE FlowInv' /\ Simulates
  OBVIOUS
<1>1. AttPhase = "idle" /\ AttPhase' = "running"
  BY DEF call_RA_SIM, AttPhase
<1>2. Abstract!Challenge
  BY <1>1 DEF Abstract!Challenge, call_RA_SIM
<1>3. FlowInv'
  BY DEF FlowInv, call_RA_SIM, BeforeResult, AfterResult, Steps
<1> QED
  BY <1>2, <1>3 DEF Simulates, Abstract!AttNext

(* The answer to MSG3: an acceptance, or a step that shows nothing.        *)
LEMMA Msg3Step == FlowInv /\ SendMsg3 => FlowInv' /\ Simulates
<1> SUFFICES ASSUME FlowInv, SendMsg3 PROVE FlowInv' /\ Simulates
  OBVIOUS
<1>1. pc = "send3" /\ pc' = "verify_mac" /\ verdict' = verdict /\ ~accepted
  BY DEF SendMsg3, Goto, FlowInv, BeforeResult
<1>2. AttPhase = "running" /\ AttPhase' = "running"
  BY <1>1 DEF AttPhase
<1>3. CASE spRet' = "SP_OK"
  <2>1. accepted' = TRUE /\ jret' = "ok"
    BY <1>3 DEF SendMsg3, CodeOf
  <2>2. Abstract!Accept
    BY <1>1, <1>2, <2>1 DEF Abstract!Accept
  <2>3. FlowInv'
    BY <1>1, <2>1 DEF FlowInv, BeforeResult, AfterResult, Steps
  <2> QED
    BY <2>2, <2>3 DEF Simulates, Abstract!AttNext
<1>4. CASE spRet' # "SP_OK"
  <2>1. accepted' = accepted /\ jret' = "error"
    BY <1>4 DEF SendMsg3, CodeOf
  <2>2. FlowInv'
    BY <1>1, <2>1 DEF FlowInv, BeforeResult, AfterResult, Steps
  <2> QED
    BY <1>1, <1>2, <2>1, <2>2 DEF Simulates
<1> QED
  BY <1>3, <1>4

LEMMA ReportStep == FlowInv /\ Report => FlowInv' /\ Simulates
<1> SUFFICES ASSUME FlowInv, Report PROVE FlowInv' /\ Simulates
  OBVIOUS
<1>1. pc = "report" /\ accepted' = accepted /\ (accepted <=> jret = "ok")
  BY DEF Report, FlowInv, AfterResult
<1>2. AttPhase = "running"
  BY <1>1 DEF AttPhase
<1>3. CASE jret = "ok"
  <2>1. pc' = "idle" /\ verdict' = "Success"
    BY <1>3 DEF Report
  <2>2. Abstract!AnswerSuccess
    BY <1>1, <1>2, <1>3, <2>1 DEF Abstract!AnswerSuccess, AttPhase
  <2>3. FlowInv'
    BY <1>1, <2>1 DEF FlowInv, BeforeResult, AfterResult, Steps
  <2> QED
    BY <2>2, <2>3 DEF Simulates, Abstract!AttNext
<1>4. CASE jret # "ok"
  <2>1. pc' = "stopped" /\ verdict' = "Failed"
    BY <1>4 DEF Report
  <2>2. Abstract!AnswerFailed
    BY <1>1, <1>2, <1>4, <2>1 DEF Abstract!AnswerFailed, AttPhase
  <2>3. FlowInv'
    BY <1>1, <2>1 DEF FlowInv, BeforeResult, AfterResult, Steps
  <2> QED
    BY <2>2, <2>3 DEF Simulates, Abstract!AttNext
<1> QED
  BY <1>3, <1>4

----------------------------------------------------------------------------
(* The other steps of the server's thread, one by one.                     *)
LEMMA ServerSteps == FlowInv /\ ServerStep => FlowInv' /\ Simulates
<1> SUFFICES ASSUME FlowInv, ServerStep PROVE FlowInv' /\ Simulates
  OBVIOUS
<1> USE DEF Goto, BeforeResult, AfterResult
<1>1. CASE config_extended_ID
  BY <1>1, QuietStep DEF config_extended_ID
<1>2. CASE CreateEnclave
  BY <1>2, QuietStep DEF CreateEnclave
<1>3. CASE RetryLostEnclave
  BY <1>3, QuietStep DEF RetryLostEnclave
<1>4. CASE InitRa
  BY <1>4, QuietStep DEF InitRa
<1>5. CASE send_MSG0
  BY <1>5, QuietStep DEF send_MSG0
<1>6. CASE AllocMsg1
  BY <1>6, QuietStep DEF AllocMsg1
<1>7. CASE GetMsg1Busy
  BY <1>7, QuietStep DEF GetMsg1Busy
<1>8. CASE GetMsg1
  BY <1>8, QuietStep DEF GetMsg1
<1>9. CASE GetMsg1Fails
  BY <1>9, QuietStep DEF GetMsg1Fails
<1>10. CASE SendMsg1
  BY <1>10, QuietStep DEF SendMsg1
<1>11. CASE verifyMSG2
  BY <1>11, QuietStep DEF verifyMSG2
<1>12. CASE StartMsg3
  BY <1>12, QuietStep DEF StartMsg3
<1>13. CASE NullMsg2
  BY <1>13, DeathStep DEF NullMsg2
<1>14. CASE ProcMsg2Busy
  BY <1>14, QuietStep DEF ProcMsg2Busy
<1>15. CASE ProcMsg2
  BY <1>15, QuietStep DEF ProcMsg2
<1>16. CASE ProcMsg2Fails
  BY <1>16, QuietStep DEF ProcMsg2Fails
<1>17. CASE SendMsg3
  BY <1>17, Msg3Step
<1>18. CASE NullAttResult
  BY <1>18, DeathStep DEF NullAttResult
<1>19. CASE VerifyMac
  BY <1>19, QuietLateStep DEF VerifyMac
<1>20. CASE VerifyDangling
  BY <1>20, QuietLateStep DEF VerifyDangling
<1>21. CASE PutSecret
  BY <1>21, QuietLateStep DEF PutSecret
<1>22. CASE NullWrite
  BY <1>22, DeathStep DEF NullWrite
<1>23. CASE Report
  BY <1>23, ReportStep
<1> QED
  BY <1>1, <1>2, <1>3, <1>4, <1>5, <1>6, <1>7, <1>8, <1>9, <1>10, <1>11, <1>12, <1>13,
     <1>14, <1>15, <1>16, <1>17, <1>18, <1>19, <1>20, <1>21, <1>22, <1>23
  DEF ServerStep

LEMMA NextStep == FlowInv /\ [Next]_vars => FlowInv' /\ Simulates
<1> SUFFICES ASSUME FlowInv, [Next]_vars PROVE FlowInv' /\ Simulates
  OBVIOUS
<1>1. CASE call_RA_SIM
  BY <1>1, ChallengeStep
<1>2. CASE ServerStep
  BY <1>2, ServerSteps
<1>3. CASE OutOfMemory
  <2>1. PICK p \in {"config", "msg1", "proc_msg2"} : Goto(p, "null_write")
    BY <1>3 DEF OutOfMemory
  <2> QED
    BY <1>3, <2>1, QuietStep DEF OutOfMemory, Goto, BeforeResult
<1>4. CASE UndefinedAbort
  BY <1>4, DeathStep DEF UndefinedAbort
<1>5. CASE PressKey \/ PowerLoss \/ UNCHANGED vars
  <2>1. UNCHANGED <<pc, jret, verdict, accepted>>
    BY <1>5 DEF PressKey, PowerLoss, vars, appVars
  <2>2. UNCHANGED <<AttPhase, verdict, accepted>>
    BY <2>1 DEF AttPhase
  <2> QED
    BY <2>1, <2>2 DEF FlowInv, Simulates
<1> QED
  BY <1>1, <1>2, <1>3, <1>4, <1>5 DEF Next

LEMMA InitStep == Init => FlowInv /\ Abstract!AttInit
BY DEF Init, FlowInv, Steps, BeforeResult, AfterResult, Abstract!AttInit, AttPhase

(* The flow of return codes described by FlowInv holds throughout.         *)
THEOREM FlowInvariance == Spec => []FlowInv
<1>1. Init => FlowInv
  BY InitStep
<1>2. FlowInv /\ [Next]_vars => FlowInv'
  BY NextStep
<1> QED
  BY <1>1, <1>2, PTL DEF Spec

(***************************************************************************)
(* Java_Main.call_RA_SIM answers "Success" exactly when the provider has   *)
(* accepted the evidence of the challenge being answered, and answers      *)
(* nothing when the process dies on the way: it implements Attestation.    *)
(***************************************************************************)
THEOREM RemoteAttestationImplements == Spec => ImplementsAttestation
<1>1. Init => Abstract!AttInit
  BY InitStep
<1>2. FlowInv /\ [Next]_vars => [Abstract!AttNext]_<<AttPhase, verdict, accepted>>
  BY NextStep DEF Simulates
<1> QED
  BY <1>1, <1>2, FlowInvariance, PTL
  DEF Spec, ImplementsAttestation, Abstract!AttSpec, Abstract!attVars

----------------------------------------------------------------------------
(***************************************************************************)
(* Safety of call_RA_SIM: no challenge with a failed call is accepted,     *)
(* what is accepted comes from a new enclave in a sound process, and the   *)
(* retry loops end.                                                        *)
(***************************************************************************)
Born(e) == e = 0 \/ (e \in EnclaveIds /\ life[e] # "unborn")
Gone(e) == e \in EnclaveIds => life[e] = "destroyed"

(* The g_a that the stored MSG2 answers.                                   *)
Msg2Ga == m2.sign_gb_ga[2]

(* The steps of a challenge that have an enclave, or have failed to get it.*)
EarlySteps == {"init_ra", "msg0", "msg1", "get_msg1", "send1"}
LateSteps == {"verify2", "msg3", "proc_msg2"}

IsPerEnclave(f) == f = [e \in EnclaveIds |-> f[e]]

RaTypes ==
  /\ life \in [EnclaveIds -> Life]
  /\ IsPerEnclave(ra) /\ IsPerEnclave(ga) /\ IsPerEnclave(gb)
  /\ ptr \in [Buffers -> {"null", "live", "freed"}]
  /\ gret \in Codes /\ undef \in BOOLEAN /\ failedStep \in BOOLEAN

(* Enclaves are born in the order of their ids.                            *)
BirthInv ==
  /\ Born(enclave_id) /\ Born(prevId) /\ Born(Msg2Ga)
  /\ \A e, f \in EnclaveIds : life[e] # "unborn" /\ life[f] = "unborn" => e < f
  /\ \A e \in EnclaveIds : ra[e] = "get_gaed" => ga[e] = e

(***************************************************************************)
(* The enclave at hand is gone, or is one of this challenge.  In the       *)
(* latter case a MSG2 of an older challenge does not fit it, and nothing   *)
(* but a refused MSG1 can have failed.                                     *)
(***************************************************************************)
DoomInv ==
  /\ pc \in {"config", "create"} => ~failedStep
  /\ pc \in EarlySteps \union LateSteps =>
       Gone(enclave_id) \/ enclave_id > prevId
  /\ pc \in EarlySteps =>
       Gone(enclave_id) \/ (Msg2Ga # enclave_id /\ ~failedStep)
  /\ pc = "send1" /\ ptr["p_msg1_full"] = "live" => m1 = enclave_id
  /\ pc \in LateSteps =>
       Gone(enclave_id) \/ Msg2Ga # enclave_id
         \/ (~failedStep /\ ptr["p_msg2_full"] = "live")

(***************************************************************************)
(* A corrupt heap comes with the global code -1, with an enclave that is   *)
(* gone, or with a MSG2 that does not fit it.                              *)
(***************************************************************************)
SoundInv ==
  /\ pc \in {"idle", "config", "create"} => (undef => gret = "error")
  /\ pc \in EarlySteps \union {"verify2"} =>
       (undef => gret = "error" \/ Gone(enclave_id))
  /\ pc \in {"msg3", "proc_msg2"} =>
       Gone(enclave_id) \/ (gret = "ok" /\ (undef => Msg2Ga # enclave_id))
  /\ pc = "verify_mac" /\ accepted =>
       /\ gret = "ok" /\ ~undef
       /\ ptr["p_msg2_full"] = "live" /\ ptr["p_att_result_msg_full"] = "live"
  /\ pc = "put_secret" /\ accepted =>
       \/ /\ gret = "ok" /\ ~undef
          /\ ptr["p_msg2_full"] = "live" /\ ptr["p_att_result_msg_full"] = "live"
       \/ gret = "error" /\ Gone(enclave_id)
  /\ pc = "report" /\ accepted => (undef => gret = "error")

(* What a MSG3 with a body tells, and an accepted challenge.               *)
EvidenceInv ==
  /\ pc = "send3" /\ m3 # NoMsg3 =>
       /\ m3 = Msg3For(ga[enclave_id], gb[enclave_id])
       /\ enclave_id > prevId /\ ~failedStep
       /\ gret = "ok" /\ ~undef /\ ptr["p_msg2_full"] = "live"
  /\ accepted =>
       /\ ~failedStep /\ enclave_id > prevId
       /\ \E s \in issued : <<s.ga, s.gb>> = KeysOf(enclave_id)
  /\ verdict = "Success" => accepted /\ pc \in {"idle", "dead"}

(* A counter that ran past 0 is reset for MSG3, or ends the last challenge.*)
BudgetInv ==
  /\ pc \in {"idle", "config", "create", "init_ra", "msg0", "msg1", "get_msg1", "proc_msg2"} =>
       busy_retry_time \in 0 .. 4
  /\ pc = "send3" /\ m3 # NoMsg3 => busy_retry_time \in 0 .. 4
  /\ pc \in AfterResult /\ accepted => busy_retry_time \in 0 .. 4

RaInv == RaTypes /\ BirthInv /\ DoomInv /\ SoundInv /\ EvidenceInv /\ BudgetInv
----------------------------------------------------------------------------
LEMMA RaInitInv == Init => RaInv
<1> SUFFICES ASSUME Init PROVE RaInv
  OBVIOUS
<1>1. RaTypes
  BY DEF Init, EnclaveInit, RaTypes, Life, IsPerEnclave, Codes
<1>2. BirthInv
  BY DEF Init, EnclaveInit, BirthInv, Born, Msg2Ga, NoMsg2, Msg2For, NoSession
<1>3. DoomInv /\ SoundInv /\ EvidenceInv /\ BudgetInv
  BY DEF Init, DoomInv, SoundInv, EvidenceInv, BudgetInv, EarlySteps, LateSteps, AfterResult
<1> QED
  BY <1>1, <1>2, <1>3 DEF RaInv

----------------------------------------------------------------------------
(* What keeps births and the keys of MSG1.                                 *)
Unmoved ==
  /\ \A e \in EnclaveIds : life'[e] = "unborn" <=> life[e] = "unborn"
  /\ \A e \in EnclaveIds : ra'[e] = "get_gaed" => ra[e] = "get_gaed"
  /\ UNCHANGED <<ga, enclave_id, m2>>

LEMMA BirthKept ==
  ASSUME BirthInv, Unmoved, UNCHANGED prevId
  PROVE  BirthInv'
BY DEF BirthInv, Born, Msg2Ga, Unmoved

(* cleanUP takes the enclave away, and no good code comes out of a bad one.*)
LEMMA CleanUpGone ==
  ASSUME RaTypes, BirthInv, NEW n, NEW p, NEW g \in Codes, cleanUP(n, p, g),
         UNCHANGED <<enclave_id, m2>>
  PROVE  /\ Gone(enclave_id)' /\ Unmoved /\ UNCHANGED <<ga, gb>>
         /\ life' \in [EnclaveIds -> Life] /\ IsPerEnclave(ra')
         /\ gret' \in {g, "error"} /\ gret' \in Codes
         /\ undef' = (undef \/ DoubleFree(p, n)) /\ undef' \in BOOLEAN
<1>1. CloseAndDestroy(enclave_id, context) /\ gret' \in {g, "error"}
      /\ undef' = (undef \/ DoubleFree(p, n))
  BY DEF cleanUP
<1>2. /\ life' = [f \in EnclaveIds |->
                    IF f = enclave_id /\ life[f] # "unborn" THEN "destroyed" ELSE life[f]]
      /\ ra' = [f \in EnclaveIds |->
                  IF f = enclave_id /\ context /\ CanClose(enclave_id) THEN "closed" ELSE ra[f]]
      /\ UNCHANGED <<ga, gb>>
  BY <1>1 DEF CloseAndDestroy
<1>3. Gone(enclave_id)' /\ Unmoved
  BY <1>2, EnclaveIdsAssumption DEF Gone, Unmoved, BirthInv, Born
<1>4. life' \in [EnclaveIds -> Life]
  BY <1>2 DEF RaTypes, Life
<1>5. IsPerEnclave(ra')
  BY <1>2 DEF IsPerEnclave
<1>6. gret' \in Codes
  BY <1>1 DEF Codes
<1>7. undef' \in BOOLEAN
  BY <1>1 DEF RaTypes, DoubleFree
<1> QED
  BY <1>1, <1>2, <1>3, <1>4, <1>5, <1>6, <1>7

LEMMA AfterCleanUPTypes ==
  ASSUME NEW p
  PROVE  /\ AfterCleanUP(p) \in [Buffers -> {"null", "live", "freed"}]
         /\ AfterCleanUP(p)["p_msg1_full"] = "null"
         /\ \A b \in Responses : AfterCleanUP(p)[b] \in {"null", "freed"}
BY DEF AfterCleanUP, Buffers, Responses

(* Before MSG3 is answered nothing has been accepted.                      *)
LEMMA NotYetAccepted ==
  ASSUME FlowInv, EvidenceInv, pc \in BeforeResult
  PROVE  ~accepted /\ verdict # "Success"
BY DEF FlowInv, EvidenceInv, BeforeResult

(* A call fails before MSG3: whatever follows, the enclave is gone.        *)
LEMMA DoomedStep ==
  ASSUME RaInv, FlowInv, pc \in BeforeResult, pc' \in EarlySteps \union LateSteps,
         NEW n, cleanUP(n, ptr, gret), ptr' = AfterCleanUP(ptr), failedStep' \in BOOLEAN,
         UNCHANGED <<enclave_id, prevId, m2, accepted, verdict>>,
         pc' \in {"init_ra", "msg0", "msg1", "get_msg1", "proc_msg2"} => busy_retry_time' \in 0 .. 4
  PROVE  RaInv'
<1>1. /\ Gone(enclave_id)' /\ Unmoved /\ UNCHANGED <<ga, gb>>
      /\ life' \in [EnclaveIds -> Life] /\ IsPerEnclave(ra')
      /\ gret' \in Codes /\ undef' \in BOOLEAN
  BY CleanUpGone DEF RaInv, RaTypes
<1>2. ptr' \in [Buffers -> {"null", "live", "freed"}] /\ ptr'["p_msg1_full"] = "null"
  BY AfterCleanUPTypes
<1>3. RaTypes'
  BY <1>1, <1>2 DEF RaInv, RaTypes, IsPerEnclave
<1>4. BirthInv'
  BY <1>1, BirthKept DEF RaInv
<1>5. DoomInv' /\ SoundInv'
  BY <1>1, <1>2 DEF DoomInv, SoundInv, EarlySteps, LateSteps
<1>6. EvidenceInv' /\ BudgetInv'
  <2>1. ~accepted' /\ verdict' # "Success"
    BY NotYetAccepted DEF RaInv
  <2> QED
    BY <2>1 DEF EvidenceInv, BudgetInv, EarlySteps, LateSteps, AfterResult
<1> QED
  BY <1>3, <1>4, <1>5, <1>6 DEF RaInv

(* A step that does nothing to the enclaves and the code.                  *)
LEMMA SteadyTypes ==
  ASSUME RaInv, UNCHANGED <<enclaveVars, gret, enclave_id, prevId, m2>>,
         ptr' \in [Buffers -> {"null", "live", "freed"}],
         undef' \in BOOLEAN, failedStep' \in BOOLEAN
  PROVE  /\ RaTypes' /\ BirthInv'
         /\ UNCHANGED <<life, ra, ga, gb>>
<1>1. UNCHANGED <<life, ra, ga, gb>>
  BY DEF enclaveVars
<1>2. RaTypes'
  BY <1>1 DEF RaInv, RaTypes, IsPerEnclave
<1>3. BirthInv'
  BY <1>1, BirthKept DEF RaInv, Unmoved
<1> QED
  BY <1>1, <1>2, <1>3
----------------------------------------------------------------------------
(* The steps of a challenge, one by one.                                   *)
LEMMA ChallengeInv == RaInv /\ FlowInv /\ call_RA_SIM => RaInv'
<1> SUFFICES ASSUME RaInv, FlowInv, call_RA_SIM PROVE RaInv'
  OBVIOUS
<1>1. /\ pc = "idle" /\ pc' = "config" /\ verdict' = "none" /\ accepted' = FALSE
      /\ failedStep' = FALSE /\ prevId' = enclave_id
      /\ UNCHANGED <<gret, enclave_id, busy_retry_time, undef, ptr, m2>>
      /\ UNCHANGED <<life, ra, ga, gb>>
  BY DEF call_RA_SIM, memVars, enclaveVars
<1>2. RaTypes'
  BY <1>1 DEF RaInv, RaTypes, IsPerEnclave
<1>3. BirthInv'
  BY <1>1 DEF RaInv, BirthInv, Born, Msg2Ga
<1>4. DoomInv' /\ SoundInv'
  BY <1>1 DEF RaInv, DoomInv, SoundInv, EarlySteps, LateSteps
<1>5. EvidenceInv' /\ BudgetInv'
  BY <1>1 DEF RaInv, EvidenceInv, BudgetInv, AfterResult
<1> QED
  BY <1>2, <1>3, <1>4, <1>5 DEF RaInv

LEMMA ConfigInv == RaInv /\ FlowInv /\ config_extended_ID => RaInv'
<1> SUFFICES ASSUME RaInv, FlowInv, config_extended_ID PROVE RaInv'
  OBVIOUS
<1>1. /\ pc = "config" /\ pc' = "create"
      /\ UNCHANGED <<enclaveVars, gret, undef, verdict, prevId, enclave_id, busy_retry_time,
                     accepted, failedStep, m2>>
      /\ ptr' \in [Buffers -> {"null", "live", "freed"}]
  BY DEF config_extended_ID, Goto, NoCleanUP, memVars, RaInv, RaTypes
<1>2. RaTypes' /\ BirthInv'
  BY <1>1, SteadyTypes DEF RaInv, RaTypes
<1>3. ~accepted /\ verdict # "Success"
  BY <1>1, NotYetAccepted DEF RaInv, BeforeResult
<1>4. DoomInv' /\ SoundInv' /\ EvidenceInv' /\ BudgetInv'
  BY <1>1, <1>3
     DEF RaInv, DoomInv, SoundInv, EvidenceInv, BudgetInv, EarlySteps, LateSteps, AfterResult
<1> QED
  BY <1>2, <1>4 DEF RaInv

(* A new enclave is younger than every id that anything still refers to.   *)
LEMMA CreateInv == RaInv /\ FlowInv /\ CreateEnclave => RaInv'
<1> SUFFICES ASSUME RaInv, FlowInv, CreateEnclave PROVE RaInv'
  OBVIOUS
<1>1. /\ pc = "create" /\ pc' = "init_ra"
      /\ UNCHANGED <<verdict, prevId, busy_retry_time, accepted, m2>>
  BY DEF CreateEnclave, Goto
<1>2. busy_retry_time \in 0 .. 4
  BY <1>1 DEF RaInv, BudgetInv
<1>3. ASSUME NEW e \in EnclaveIds, sgx_create_enclave(e), enclave_id' = e,
             UNCHANGED <<gret, undef, ptr, failedStep>>
      PROVE  RaInv'
  <2>1. /\ life[e] = "unborn" /\ \A f \in EnclaveIds : f < e => life[f] # "unborn"
        /\ life' = [life EXCEPT ![e] = "live"] /\ UNCHANGED <<ra, ga, gb>>
    BY <1>3 DEF sgx_create_enclave, Unborn
  <2>2. RaTypes'
    BY <1>3, <2>1 DEF RaInv, RaTypes, Life, IsPerEnclave
  <2>3. \A f \in EnclaveIds : life'[f] = (IF f = e THEN "live" ELSE life[f])
    BY <2>1 DEF RaInv, RaTypes
  <2>4. BirthInv'
    <3>1. Born(enclave_id)' /\ Born(prevId)' /\ Born(Msg2Ga)'
      BY <1>1, <1>3, <2>3 DEF RaInv, BirthInv, Born, Msg2Ga
    <3>2. ASSUME NEW f \in EnclaveIds, NEW g \in EnclaveIds, life'[f] # "unborn", life'[g] = "unborn"
          PROVE  f < g
      <4>1. g # e /\ life[g] = "unborn" /\ f \in Nat /\ g \in Nat /\ e \in Nat
        BY <2>3, <3>2, EnclaveIdsAssumption
      <4>2. CASE f = e
        BY <2>1, <4>1, <4>2
      <4>3. CASE f # e
        BY <2>3, <3>2, <4>1, <4>3 DEF RaInv, BirthInv
      <4> QED
        BY <4>2, <4>3
    <3>3. \A f \in EnclaveIds : ra'[f] = "get_gaed" => ga'[f] = f
      BY <2>1 DEF RaInv, BirthInv
    <3> QED
      BY <3>1, <3>2, <3>3 DEF BirthInv
  <2>5. e > prevId /\ Msg2Ga # e
    <3>1. Born(prevId) /\ Born(Msg2Ga)
          /\ \A f \in EnclaveIds : life[f] # "unborn" => f < e
      BY <2>1 DEF RaInv, BirthInv
    <3>2. e \in Nat \ {0} /\ EnclaveIds \subseteq Nat
      BY EnclaveIdsAssumption
    <3>3. Msg2Ga # e
      BY <2>1, <3>1, <3>2 DEF Born
    <3>4. CASE prevId = 0
      BY <3>2, <3>3, <3>4
    <3>5. CASE prevId \in EnclaveIds /\ life[prevId] # "unborn"
      BY <3>1, <3>2, <3>3, <3>5
    <3> QED
      BY <3>1, <3>4, <3>5 DEF Born
  <2>6. ~accepted /\ verdict # "Success"
    BY <1>1, NotYetAccepted DEF RaInv, BeforeResult
  <2>7. Msg2Ga' = Msg2Ga
    BY <1>1 DEF Msg2Ga
  <2>8. DoomInv' /\ SoundInv'
    BY <1>1, <1>3, <2>5, <2>7 DEF RaInv, DoomInv, SoundInv, EarlySteps, LateSteps
  <2>9. EvidenceInv' /\ BudgetInv'
    BY <1>1, <1>2, <2>6 DEF EvidenceInv, BudgetInv, AfterResult
  <2> QED
    BY <2>2, <2>4, <2>8, <2>9 DEF RaInv
<1>4. CASE cleanUP(1, ptr, gret) /\ ptr' = AfterCleanUP(ptr) /\ failedStep' = TRUE
           /\ UNCHANGED enclave_id
  BY <1>1, <1>2, <1>4, DoomedStep DEF BeforeResult, EarlySteps
<1> QED
  BY <1>3, <1>4 DEF CreateEnclave

LEMMA RetryInv == RaInv /\ FlowInv /\ RetryLostEnclave => RaInv'
<1> SUFFICES ASSUME RaInv, FlowInv, RetryLostEnclave PROVE RaInv'
  OBVIOUS
<1>1. /\ pc = "init_ra" /\ pc' = "create"
      /\ enclave_id \in EnclaveIds /\ life[enclave_id] = "lost"
      /\ UNCHANGED <<enclaveVars, gret, undef, verdict, prevId, enclave_id, busy_retry_time,
                     accepted, failedStep, m2, ptr>>
  BY DEF RetryLostEnclave, Goto, NoCleanUP, memVars
<1>2. RaTypes' /\ BirthInv'
  BY <1>1, SteadyTypes DEF RaInv, RaTypes
<1>3. ~accepted /\ verdict # "Success"
  BY <1>1, NotYetAccepted DEF RaInv, BeforeResult
<1>4. ~Gone(enclave_id)
  BY <1>1 DEF Gone
<1>5. DoomInv' /\ SoundInv' /\ EvidenceInv' /\ BudgetInv'
  BY <1>1, <1>3, <1>4
     DEF RaInv, DoomInv, SoundInv, EvidenceInv, BudgetInv, EarlySteps, LateSteps, AfterResult
<1> QED
  BY <1>2, <1>5 DEF RaInv

LEMMA InitRaInv == RaInv /\ FlowInv /\ InitRa => RaInv'
<1> SUFFICES ASSUME RaInv, FlowInv, InitRa PROVE RaInv'
  OBVIOUS
<1>1. /\ pc = "init_ra" /\ pc' = "msg0"
      /\ UNCHANGED <<verdict, prevId, enclave_id, busy_retry_time, accepted, m2>>
  BY DEF InitRa, Goto
<1>2. busy_retry_time \in 0 .. 4
  BY <1>1 DEF RaInv, BudgetInv
<1>3. CASE enclave_init_ra(enclave_id) /\ UNCHANGED <<gret, undef, ptr, failedStep>>
  <2>1. UNCHANGED <<life, ga, gb>> /\ ra' = [ra EXCEPT ![enclave_id] = "inited"]
    BY <1>3 DEF enclave_init_ra
  <2>2. RaTypes'
    BY <1>3, <2>1 DEF RaInv, RaTypes, IsPerEnclave
  <2>3. Unmoved
    BY <1>1, <2>1 DEF Unmoved, RaInv, RaTypes, IsPerEnclave
  <2>4. BirthInv'
    BY <1>1, <2>3, BirthKept DEF RaInv
  <2>5. ~accepted /\ verdict # "Success"
    BY <1>1, NotYetAccepted DEF RaInv, BeforeResult
  <2>6. DoomInv' /\ SoundInv' /\ EvidenceInv' /\ BudgetInv'
    BY <1>1, <1>2, <1>3, <2>1, <2>5
       DEF RaInv, DoomInv, SoundInv, EvidenceInv, BudgetInv, EarlySteps, LateSteps, AfterResult,
           Gone, Msg2Ga
  <2> QED
    BY <2>2, <2>4, <2>6 DEF RaInv
<1>4. CASE cleanUP(1, ptr, gret) /\ ptr' = AfterCleanUP(ptr) /\ failedStep' = TRUE
  BY <1>1, <1>2, <1>4, DoomedStep DEF BeforeResult, EarlySteps
<1> QED
  BY <1>3, <1>4 DEF InitRa

LEMMA Msg0Inv == RaInv /\ FlowInv /\ send_MSG0 => RaInv'
<1> SUFFICES ASSUME RaInv, FlowInv, send_MSG0 PROVE RaInv'
  OBVIOUS
<1>1. /\ pc = "msg0" /\ pc' = "msg1"
      /\ UNCHANGED <<verdict, prevId, enclave_id, busy_retry_time, accepted, m2>>
  BY DEF send_MSG0, Goto
<1>2. busy_retry_time \in 0 .. 4
  BY <1>1 DEF RaInv, BudgetInv
<1>3. CASE NoCleanUP /\ UNCHANGED <<ptr, failedStep>>
  <2>1. UNCHANGED <<enclaveVars, gret, undef>>
    BY <1>3 DEF NoCleanUP
  <2>2. RaTypes' /\ BirthInv' /\ UNCHANGED <<life, ra, ga, gb>>
    BY <1>1, <1>3, <2>1, SteadyTypes DEF RaInv, RaTypes
  <2>3. ~accepted /\ verdict # "Success"
    BY <1>1, NotYetAccepted DEF RaInv, BeforeResult
  <2>4. DoomInv' /\ SoundInv' /\ EvidenceInv' /\ BudgetInv'
    BY <1>1, <1>2, <1>3, <2>1, <2>2, <2>3
       DEF RaInv, DoomInv, SoundInv, EvidenceInv, BudgetInv, EarlySteps, LateSteps, AfterResult,
           Gone, Msg2Ga
  <2> QED
    BY <2>2, <2>4 DEF RaInv
<1>4. CASE cleanUP(1, ptr, gret) /\ ptr' = AfterCleanUP(ptr) /\ failedStep' = TRUE
  BY <1>1, <1>2, <1>4, DoomedStep DEF BeforeResult, EarlySteps
<1> QED
  BY <1>3, <1>4 DEF send_MSG0

LEMMA AllocMsg1Inv == RaInv /\ FlowInv /\ AllocMsg1 => RaInv'
<1> SUFFICES ASSUME RaInv, FlowInv, AllocMsg1 PROVE RaInv'
  OBVIOUS
<1>1. /\ pc = "msg1" /\ pc' = "get_msg1"
      /\ UNCHANGED <<enclaveVars, gret, undef, verdict, prevId, enclave_id, busy_retry_time,
                     accepted, failedStep, m2>>
      /\ ptr' \in [Buffers -> {"null", "live", "freed"}]
  BY DEF AllocMsg1, Goto, NoCleanUP, RaInv, RaTypes
<1>2. RaTypes' /\ BirthInv' /\ UNCHANGED <<life, ra, ga, gb>>
  BY <1>1, SteadyTypes DEF RaInv, RaTypes
<1>3. ~accepted /\ verdict # "Success"
  BY <1>1, NotYetAccepted DEF RaInv, BeforeResult
<1>4. DoomInv' /\ SoundInv' /\ EvidenceInv' /\ BudgetInv'
  BY <1>1, <1>2, <1>3
     DEF RaInv, DoomInv, SoundInv, EvidenceInv, BudgetInv, EarlySteps, LateSteps, AfterResult,
         Gone, Msg2Ga
<1> QED
  BY <1>2, <1>4 DEF RaInv

(* The retry counter: a BUSY answer at 0 ends the loop.                    *)
LEMMA BusyInv == RaInv /\ FlowInv /\ (GetMsg1Busy \/ ProcMsg2Busy) => RaInv'
<1> SUFFICES ASSUME RaInv, FlowInv, GetMsg1Busy \/ ProcMsg2Busy PROVE RaInv'
  OBVIOUS
<1>1. /\ pc \in {"get_msg1", "proc_msg2"} /\ pc' = pc
      /\ busy_retry_time # 0 /\ busy_retry_time' = busy_retry_time - 1
      /\ UNCHANGED <<enclaveVars, gret, undef, verdict, prevId, enclave_id, accepted,
                     failedStep, m2, ptr>>
  BY DEF GetMsg1Busy, ProcMsg2Busy, Goto, NoCleanUP, memVars
<1>2. busy_retry_time' \in 0 .. 4
  <2>1. busy_retry_time \in 0 .. 4
    BY <1>1 DEF RaInv, BudgetInv
  <2> QED
    BY <1>1, <2>1
<1>3. RaTypes' /\ BirthInv' /\ UNCHANGED <<life, ra, ga, gb>>
  BY <1>1, SteadyTypes DEF RaInv, RaTypes
<1>4. ~accepted /\ verdict # "Success"
  BY <1>1, NotYetAccepted DEF RaInv, BeforeResult
<1>5. DoomInv' /\ SoundInv' /\ EvidenceInv' /\ BudgetInv'
  BY <1>1, <1>2, <1>3, <1>4
     DEF RaInv, DoomInv, SoundInv, EvidenceInv, BudgetInv, EarlySteps, LateSteps, AfterResult,
         Gone, Msg2Ga
<1> QED
  BY <1>3, <1>5 DEF RaInv

LEMMA GetMsg1Inv == RaInv /\ FlowInv /\ (GetMsg1 \/ GetMsg1Fails) => RaInv'
<1> SUFFICES ASSUME RaInv, FlowInv, GetMsg1 \/ GetMsg1Fails PROVE RaInv'
  OBVIOUS
<1>1. /\ pc = "get_msg1" /\ pc' = "send1"
      /\ UNCHANGED <<verdict, prevId, enclave_id, accepted, m2>>
  BY DEF GetMsg1, GetMsg1Fails, Goto
<1>2. CASE GetMsg1
  <2>1. /\ sgx_ra_get_msg1(enclave_id) /\ m1' = enclave_id
        /\ UNCHANGED <<gret, undef, failedStep, ptr>>
    BY <1>2 DEF GetMsg1
  <2>2. /\ enclave_id \in EnclaveIds /\ ra' = [ra EXCEPT ![enclave_id] = "get_gaed"]
        /\ ga' = [ga EXCEPT ![enclave_id] = enclave_id] /\ UNCHANGED <<life, gb>>
    BY <2>1 DEF sgx_ra_get_msg1, CanGetMsg1, Live
  <2>3. RaTypes'
    BY <2>1, <2>2 DEF RaInv, RaTypes, IsPerEnclave
  <2>4. BirthInv'
    BY <1>1, <2>2 DEF RaInv, RaTypes, IsPerEnclave, BirthInv, Born, Msg2Ga
  <2>5. ~accepted /\ verdict # "Success"
    BY <1>1, NotYetAccepted DEF RaInv, BeforeResult
  <2>6. DoomInv' /\ SoundInv' /\ EvidenceInv' /\ BudgetInv'
    BY <1>1, <2>1, <2>2, <2>5
       DEF RaInv, DoomInv, SoundInv, EvidenceInv, BudgetInv, EarlySteps, LateSteps, AfterResult,
           Gone, Msg2Ga
  <2> QED
    BY <2>3, <2>4, <2>6 DEF RaInv
<1>3. CASE GetMsg1Fails
  <2>1. cleanUP(1, ptr, gret) /\ ptr' = AfterCleanUP(ptr) /\ failedStep' = TRUE
    BY <1>3 DEF GetMsg1Fails
  <2> QED
    BY <1>1, <2>1, DoomedStep DEF BeforeResult, EarlySteps
<1> QED
  BY <1>2, <1>3

(* MSG1 of this challenge is answered, or a stale MSG2 stays in its place. *)
LEMMA SendMsg1Inv == RaInv /\ FlowInv /\ SendMsg1 => RaInv'
<1> SUFFICES ASSUME RaInv, FlowInv, SendMsg1 PROVE RaInv'
  OBVIOUS
<1>1. /\ pc = "send1" /\ pc' = "verify2"
      /\ UNCHANGED <<enclaveVars, gret, undef, verdict, prevId, enclave_id, accepted>>
  BY DEF SendMsg1, Goto, NoCleanUP
<1>2. UNCHANGED <<life, ra, ga, gb>>
  BY <1>1 DEF enclaveVars
<1>3. ~accepted /\ verdict # "Success"
  BY <1>1, NotYetAccepted DEF RaInv, BeforeResult
<1>4. EvidenceInv' /\ BudgetInv'
  BY <1>1, <1>3 DEF EvidenceInv, BudgetInv, AfterResult
<1>5. SoundInv'
  BY <1>1, <1>2 DEF RaInv, SoundInv, EarlySteps, Gone
<1>6. CASE UNCHANGED <<ptr, m2>> /\ failedStep' = TRUE
  <2>1. RaTypes' /\ BirthInv'
    BY <1>1, <1>6, SteadyTypes DEF RaInv, RaTypes
  <2>2. DoomInv'
    BY <1>1, <1>2, <1>6 DEF RaInv, DoomInv, EarlySteps, LateSteps, Gone, Msg2Ga
  <2> QED
    BY <1>4, <1>5, <2>1, <2>2 DEF RaInv
<1>7. CASE /\ ptr["p_msg1_full"] = "live" /\ Msg1Succeeds(m1)
           /\ ptr' = [ptr EXCEPT !["p_msg2_full"] = "live"]
           /\ m2' = Msg2For(g_sp_db') /\ UNCHANGED failedStep
  <2>1. m1 = enclave_id
    BY <1>1, <1>7 DEF RaInv, DoomInv
  <2>2. Msg2Ga' = enclave_id
    BY <1>7, <2>1 DEF Msg1Succeeds, DbAfter, Msg2For, Msg2Ga
  <2>3. RaTypes'
    BY <1>1, <1>2, <1>7 DEF RaInv, RaTypes, IsPerEnclave, Buffers
  <2>4. BirthInv'
    BY <1>1, <1>2, <2>2 DEF RaInv, BirthInv, Born
  <2>5. ptr'["p_msg2_full"] = "live"
    BY <1>7 DEF RaInv, RaTypes, Buffers
  <2>6. DoomInv'
    BY <1>1, <1>2, <1>7, <2>5 DEF RaInv, DoomInv, EarlySteps, LateSteps, Gone
  <2> QED
    BY <1>4, <1>5, <2>3, <2>4, <2>6 DEF RaInv
<1> QED
  BY <1>6, <1>7 DEF SendMsg1

LEMMA Verify2Inv == RaInv /\ FlowInv /\ verifyMSG2 => RaInv'
<1> SUFFICES ASSUME RaInv, FlowInv, verifyMSG2 PROVE RaInv'
  OBVIOUS
<1>1. /\ pc = "verify2" /\ pc' = "msg3"
      /\ UNCHANGED <<verdict, prevId, enclave_id, accepted, failedStep, m2>>
  BY DEF verifyMSG2, Goto
<1>2. CASE /\ gret = "ok" /\ UNCHANGED <<enclaveVars, gret, ptr>>
           /\ \/ ptr["p_msg2_full"] = "live" /\ UNCHANGED undef
              \/ ptr["p_msg2_full"] = "freed" /\ undef' = TRUE
  <2>1. RaTypes' /\ BirthInv' /\ UNCHANGED <<life, ra, ga, gb>>
    BY <1>1, <1>2, SteadyTypes DEF RaInv, RaTypes
  <2>2. ~accepted /\ verdict # "Success"
    BY <1>1, NotYetAccepted DEF RaInv, BeforeResult
  <2>3. DoomInv' /\ SoundInv' /\ EvidenceInv' /\ BudgetInv'
    BY <1>1, <1>2, <2>1, <2>2
       DEF RaInv, DoomInv, SoundInv, EvidenceInv, BudgetInv, EarlySteps, LateSteps, AfterResult,
           Gone, Msg2Ga
  <2> QED
    BY <2>1, <2>3 DEF RaInv
<1>3. CASE cleanUP(1, ptr, gret) /\ ptr' = AfterCleanUP(ptr)
  BY <1>1, <1>3, DoomedStep DEF BeforeResult, LateSteps, RaInv, RaTypes
<1> QED
  BY <1>2, <1>3 DEF verifyMSG2, NoCleanUP

LEMMA StartMsg3Inv == RaInv /\ FlowInv /\ StartMsg3 => RaInv'
<1> SUFFICES ASSUME RaInv, FlowInv, StartMsg3 PROVE RaInv'
  OBVIOUS
<1>1. /\ pc = "msg3" /\ pc' = "proc_msg2" /\ busy_retry_time' = 2
      /\ undef' = (undef \/ ptr["p_msg2_full"] = "freed")
      /\ UNCHANGED <<enclaveVars, gret, verdict, prevId, enclave_id, accepted, failedStep,
                     m2, ptr>>
  BY DEF StartMsg3, Goto, memVars
<1>2. undef' \in BOOLEAN
  BY <1>1 DEF RaInv, RaTypes
<1>3. RaTypes' /\ BirthInv' /\ UNCHANGED <<life, ra, ga, gb>>
  BY <1>1, <1>2, SteadyTypes DEF RaInv, RaTypes
<1>4. ~accepted /\ verdict # "Success"
  BY <1>1, NotYetAccepted DEF RaInv, BeforeResult
<1>5. DoomInv'
  BY <1>1, <1>3 DEF RaInv, DoomInv, EarlySteps, LateSteps, Gone, Msg2Ga
<1>6. SoundInv'
  BY <1>1, <1>3 DEF RaInv, DoomInv, SoundInv, EarlySteps, LateSteps, Gone, Msg2Ga
<1>7. EvidenceInv' /\ BudgetInv'
  BY <1>1, <1>4 DEF EvidenceInv, BudgetInv, AfterResult
<1> QED
  BY <1>3, <1>5, <1>6, <1>7 DEF RaInv

(* MSG3 gets a body only from an enclave of this challenge, in a sound     *)
(* process, to which the MSG2 at hand belongs.                             *)
LEMMA ProcMsg2Inv == RaInv /\ FlowInv /\ ProcMsg2 => RaInv'
<1> SUFFICES ASSUME RaInv, FlowInv, ProcMsg2 PROVE RaInv'
  OBVIOUS
<1>1. /\ pc = "proc_msg2" /\ pc' = "send3"
      /\ sgx_ra_proc_msg2(enclave_id, m2)
      /\ ptr' = [ptr EXCEPT !["p_msg3"] = "live", !["p_msg3_full"] = "live"]
      /\ m3' = Msg3For(ga[enclave_id], m2.gb)
      /\ UNCHANGED <<gret, undef, verdict, prevId, enclave_id, busy_retry_time, accepted,
                     failedStep, m2>>
  BY DEF ProcMsg2, Goto
<1>2. /\ enclave_id \in EnclaveIds /\ life[enclave_id] = "live" /\ ra[enclave_id] = "get_gaed"
      /\ m2.sign_gb_ga = <<m2.gb, ga[enclave_id]>>
      /\ ra' = [ra EXCEPT ![enclave_id] = "proc_msg2ed"]
      /\ gb' = [gb EXCEPT ![enclave_id] = m2.gb]
      /\ UNCHANGED <<life, ga>>
  BY <1>1 DEF sgx_ra_proc_msg2, AcceptsMsg2, Live
<1>3. ~Gone(enclave_id) /\ Msg2Ga = enclave_id
  BY <1>2 DEF Gone, Msg2Ga, RaInv, BirthInv
<1>4. /\ ~failedStep /\ ptr["p_msg2_full"] = "live" /\ enclave_id > prevId
      /\ gret = "ok" /\ ~undef
  BY <1>1, <1>3 DEF RaInv, DoomInv, SoundInv, LateSteps
<1>5. RaTypes'
  BY <1>1, <1>2 DEF RaInv, RaTypes, IsPerEnclave, Buffers
<1>6. BirthInv'
  <2>1. Unmoved
    BY <1>1, <1>2 DEF Unmoved, RaInv, RaTypes, IsPerEnclave
  <2> QED
    BY <1>1, <2>1, BirthKept DEF RaInv
<1>7. ~accepted /\ verdict # "Success"
  BY <1>1, NotYetAccepted DEF RaInv, BeforeResult
<1>8. DoomInv' /\ SoundInv'
  BY <1>1 DEF DoomInv, SoundInv, EarlySteps, LateSteps
<1>9. EvidenceInv'
  <2>1. m3' = Msg3For(ga'[enclave_id'], gb'[enclave_id'])
    BY <1>1, <1>2 DEF RaInv, RaTypes, IsPerEnclave
  <2>2. ptr'["p_msg2_full"] = "live"
    BY <1>1, <1>4 DEF RaInv, RaTypes, Buffers
  <2> QED
    BY <1>1, <1>4, <1>7, <2>1, <2>2 DEF EvidenceInv
<1>10. BudgetInv'
  BY <1>1 DEF RaInv, BudgetInv, AfterResult
<1> QED
  BY <1>5, <1>6, <1>8, <1>9, <1>10 DEF RaInv

LEMMA ProcMsg2FailsInv == RaInv /\ FlowInv /\ ProcMsg2Fails => RaInv'
<1> SUFFICES ASSUME RaInv, FlowInv, ProcMsg2Fails PROVE RaInv'
  OBVIOUS
<1>1. /\ pc = "proc_msg2" /\ pc' = "send3" /\ m3' = NoMsg3 /\ failedStep' = TRUE
      /\ ptr' = [AfterCleanUP(ptr) EXCEPT !["p_msg3_full"] = "live"]
      /\ \E n : cleanUP(n, ptr, gret)
      /\ UNCHANGED <<verdict, prevId, enclave_id, accepted, m2>>
  BY DEF ProcMsg2Fails, Goto
<1>2. /\ Unmoved /\ UNCHANGED <<ga, gb>>
      /\ life' \in [EnclaveIds -> Life] /\ IsPerEnclave(ra')
      /\ gret' \in Codes /\ undef' \in BOOLEAN
  BY <1>1, CleanUpGone DEF RaInv, RaTypes
<1>3. ptr' \in [Buffers -> {"null", "live", "freed"}]
  BY <1>1, AfterCleanUPTypes
<1>4. RaTypes'
  BY <1>1, <1>2, <1>3 DEF RaInv, RaTypes, IsPerEnclave
<1>5. BirthInv'
  BY <1>1, <1>2, BirthKept DEF RaInv
<1>6. ~accepted /\ verdict # "Success"
  BY <1>1, NotYetAccepted DEF RaInv, BeforeResult
<1>7. DoomInv' /\ SoundInv' /\ EvidenceInv' /\ BudgetInv'
  BY <1>1, <1>6
     DEF DoomInv, SoundInv, EvidenceInv, BudgetInv, EarlySteps, LateSteps, AfterResult
<1> QED
  BY <1>4, <1>5, <1>7 DEF RaInv

(* The provider accepts a MSG3 with a body, of its own session.            *)
LEMMA SendMsg3Inv == RaInv /\ FlowInv /\ SendMsg3 => RaInv'
<1> SUFFICES ASSUME RaInv, FlowInv, SendMsg3 PROVE RaInv'
  OBVIOUS
<1>1. /\ pc = "send3" /\ pc' = "verify_mac"
      /\ UNCHANGED <<verdict, prevId, enclave_id, busy_retry_time, failedStep, m2>>
      /\ \E fault : sp_ra_proc_msg3_req(m3, fault)
  BY DEF SendMsg3, Goto
<1>2. ~accepted /\ verdict # "Success"
  BY <1>1, NotYetAccepted DEF RaInv, BeforeResult
<1>3. DoomInv'
  BY <1>1 DEF DoomInv, EarlySteps, LateSteps
<1>4. CASE spRet' = "SP_OK"
  <2>1. /\ accepted' = TRUE
        /\ ptr' = [ptr EXCEPT !["p_att_result_msg_full"] = "live"]
        /\ UNCHANGED <<enclaveVars, gret, undef>>
    BY <1>4 DEF SendMsg3, NoCleanUP
  <2>2. PICK fault : sp_ra_proc_msg3_req(m3, fault)
    BY <1>1
  <2>3. Msg3Ret(m3, fault) = "SP_OK" /\ g_sp_db \in issued'
    BY <1>4, <2>2 DEF sp_ra_proc_msg3_req
  <2>4. m3 # NoMsg3 /\ ReportMatches(m3)
    BY <2>3, Msg3Accepts
  <2>5. /\ m3 = Msg3For(ga[enclave_id], gb[enclave_id])
        /\ enclave_id > prevId /\ ~failedStep
        /\ gret = "ok" /\ ~undef /\ ptr["p_msg2_full"] = "live"
    BY <1>1, <2>4 DEF RaInv, EvidenceInv
  <2>6. ptr' \in [Buffers -> {"null", "live", "freed"}]
        /\ ptr'["p_msg2_full"] = "live" /\ ptr'["p_att_result_msg_full"] = "live"
    BY <2>1, <2>5 DEF RaInv, RaTypes, Buffers
  <2>7. RaTypes' /\ BirthInv' /\ UNCHANGED <<life, ra, ga, gb>>
    BY <1>1, <2>1, <2>6, SteadyTypes DEF RaInv, RaTypes
  <2>8. SoundInv'
    BY <1>1, <2>1, <2>5, <2>6 DEF SoundInv, EarlySteps
  <2>9. <<g_sp_db.ga, g_sp_db.gb>> = KeysOf(enclave_id)'
    BY <1>1, <2>4, <2>5, <2>7 DEF ReportMatches, Msg3For, KeysOf
  <2>10. EvidenceInv'
    BY <1>1, <1>2, <2>1, <2>3, <2>5, <2>9 DEF EvidenceInv
  <2>11. BudgetInv'
    BY <1>1, <2>4 DEF RaInv, BudgetInv, AfterResult
  <2> QED
    BY <1>3, <2>7, <2>8, <2>10, <2>11 DEF RaInv
<1>5. CASE spRet' # "SP_OK"
  <2>1. accepted' = accepted /\ cleanUP(1, ptr, gret) /\ ptr' = AfterCleanUP(ptr)
    BY <1>5 DEF SendMsg3
  <2>2. /\ Unmoved /\ UNCHANGED <<ga, gb>>
        /\ life' \in [EnclaveIds -> Life] /\ IsPerEnclave(ra')
        /\ gret' \in Codes /\ undef' \in BOOLEAN
    BY <1>1, <2>1, CleanUpGone DEF RaInv, RaTypes
  <2>3. RaTypes'
    BY <1>1, <2>1, <2>2, AfterCleanUPTypes DEF RaInv, RaTypes, IsPerEnclave
  <2>4. BirthInv'
    BY <1>1, <2>2, BirthKept DEF RaInv
  <2>5. SoundInv' /\ EvidenceInv' /\ BudgetInv'
    BY <1>1, <1>2, <2>1 DEF SoundInv, EvidenceInv, BudgetInv, EarlySteps, AfterResult
  <2> QED
    BY <1>3, <2>3, <2>4, <2>5 DEF RaInv
<1> QED
  BY <1>4, <1>5
----------------------------------------------------------------------------
(* The answer to MSG3 is handled: what an accepted challenge rests on      *)
(* stays, and any cleanUP leaves -1 or a sound heap.                       *)
LEMMA LateStepInv ==
  ASSUME RaInv, FlowInv, pc \in AfterResult, pc' \in {"put_secret", "report"},
         UNCHANGED <<enclave_id, prevId, m2, accepted, verdict, failedStep, issued,
                     busy_retry_time, ga, gb>>,
         RaTypes', BirthInv', SoundInv'
  PROVE  RaInv'
<1>1. DoomInv'
  BY DEF DoomInv, EarlySteps, LateSteps
<1>2. EvidenceInv'
  BY DEF RaInv, EvidenceInv, AfterResult, KeysOf
<1>3. BudgetInv'
  BY DEF RaInv, BudgetInv, AfterResult
<1> QED
  BY <1>1, <1>2, <1>3 DEF RaInv

LEMMA VerifyMacInv == RaInv /\ FlowInv /\ (VerifyMac \/ VerifyDangling) => RaInv'
<1> SUFFICES ASSUME RaInv, FlowInv, VerifyMac \/ VerifyDangling PROVE RaInv'
  OBVIOUS
<1>1. /\ pc = "verify_mac" /\ pc' = "put_secret"
      /\ UNCHANGED <<verdict, prevId, enclave_id, busy_retry_time, accepted, failedStep, m2,
                     issued>>
  BY DEF VerifyMac, VerifyDangling, Goto, spVars
<1>2. CASE ptr["p_att_result_msg_full"] = "live" /\ gret' = "ok"
           /\ UNCHANGED <<enclaveVars, undef, ptr>>
  <2>1. UNCHANGED <<life, ra, ga, gb>>
    BY <1>2 DEF enclaveVars
  <2>2. RaTypes'
    BY <1>1, <1>2, <2>1 DEF RaInv, RaTypes, IsPerEnclave, Codes
  <2>3. BirthInv'
    BY <1>1, <2>1, BirthKept DEF RaInv, Unmoved
  <2>4. SoundInv'
    BY <1>1, <1>2 DEF RaInv, SoundInv, EarlySteps
  <2> QED
    BY <1>1, <2>1, <2>2, <2>3, <2>4, LateStepInv DEF AfterResult
<1>3. CASE (\E n : cleanUP(n, ptr, "error")) /\ ptr' = AfterCleanUP(ptr)
  <2>1. /\ Gone(enclave_id)' /\ Unmoved /\ UNCHANGED <<ga, gb>>
        /\ life' \in [EnclaveIds -> Life] /\ IsPerEnclave(ra')
        /\ gret' = "error" /\ gret' \in Codes /\ undef' \in BOOLEAN
    BY <1>1, <1>3, CleanUpGone DEF RaInv, Codes
  <2>2. RaTypes'
    BY <1>1, <1>3, <2>1, AfterCleanUPTypes DEF RaInv, RaTypes, IsPerEnclave
  <2>3. BirthInv'
    BY <1>1, <2>1, BirthKept DEF RaInv
  <2>4. SoundInv'
    BY <1>1, <2>1 DEF SoundInv, EarlySteps
  <2> QED
    BY <1>1, <2>1, <2>2, <2>3, <2>4, LateStepInv DEF AfterResult
<1> QED
  BY <1>2, <1>3 DEF VerifyMac, VerifyDangling

(***************************************************************************)
(* put_secret_data needs a live enclave, so its code and that of its       *)
(* cleanUP hide no corrupt heap: only a challenge whose code is -1 by now  *)
(* has one.                                                                *)
(***************************************************************************)
LEMMA PutSecretInv == RaInv /\ FlowInv /\ PutSecret => RaInv'
<1> SUFFICES ASSUME RaInv, FlowInv, PutSecret PROVE RaInv'
  OBVIOUS
<1>1. /\ pc = "put_secret" /\ pc' = "report"
      /\ UNCHANGED <<verdict, prevId, enclave_id, busy_retry_time, accepted, failedStep, m2,
                     issued>>
  BY DEF PutSecret, Goto, spVars
<1>2. accepted =>
        \/ /\ gret = "ok" /\ ~undef
           /\ ptr["p_msg2_full"] = "live" /\ ptr["p_att_result_msg_full"] = "live"
        \/ gret = "error" /\ Gone(enclave_id)
  BY <1>1 DEF RaInv, SoundInv
<1>3. Live(enclave_id) => ~Gone(enclave_id)
  BY DEF Live, Gone
<1>4. CASE put_secret_data(enclave_id, att.sk) /\ gret' = "ok" /\ UNCHANGED <<undef, ptr>>
  <2>1. Live(enclave_id) /\ UNCHANGED <<life, ra, ga, gb>>
    BY <1>4 DEF put_secret_data, DecryptsSecret, HasKeys
  <2>2. RaTypes'
    BY <1>1, <1>4, <2>1 DEF RaInv, RaTypes, IsPerEnclave, Codes
  <2>3. BirthInv'
    BY <1>1, <2>1, BirthKept DEF RaInv, Unmoved
  <2>4. SoundInv'
    BY <1>1, <1>2, <1>3, <1>4, <2>1 DEF SoundInv, EarlySteps
  <2> QED
    BY <1>1, <2>1, <2>2, <2>3, <2>4, LateStepInv DEF AfterResult
<1>5. ASSUME NEW g \in Codes, g = "ok" => Live(enclave_id), cleanUP(1, ptr, g),
             ptr' = AfterCleanUP(ptr)
      PROVE  RaInv'
  <2>1. /\ Unmoved /\ UNCHANGED <<ga, gb>>
        /\ life' \in [EnclaveIds -> Life] /\ IsPerEnclave(ra')
        /\ gret' \in {g, "error"} /\ gret' \in Codes
        /\ undef' = (undef \/ DoubleFree(ptr, 1)) /\ undef' \in BOOLEAN
    BY <1>1, <1>5, CleanUpGone DEF RaInv
  <2>2. RaTypes'
    BY <1>1, <1>5, <2>1, AfterCleanUPTypes DEF RaInv, RaTypes, IsPerEnclave
  <2>3. BirthInv'
    BY <1>1, <2>1, BirthKept DEF RaInv
  <2>4. ASSUME accepted, Live(enclave_id) PROVE ~undef'
    <3>1. ~undef /\ ptr["p_msg2_full"] = "live" /\ ptr["p_att_result_msg_full"] = "live"
      BY <1>2, <1>3, <2>4
    <3>2. ~DoubleFree(ptr, 1)
      BY <3>1 DEF DoubleFree, Responses
    <3> QED
      BY <2>1, <3>1, <3>2
  <2>5. SoundInv'
    BY <1>1, <1>5, <2>1, <2>4 DEF SoundInv, EarlySteps, Codes
  <2> QED
    BY <1>1, <2>1, <2>2, <2>3, <2>5, LateStepInv DEF AfterResult
<1>6. CASE ptr["p_att_result_msg_full"] = "freed" /\ undef' = TRUE
           /\ UNCHANGED <<enclaveVars, gret, ptr>>
  <2>1. RaTypes' /\ BirthInv' /\ UNCHANGED <<life, ra, ga, gb>>
    BY <1>1, <1>6, SteadyTypes DEF RaInv, RaTypes
  <2>2. SoundInv'
    BY <1>1, <1>2, <1>6 DEF SoundInv, EarlySteps
  <2> QED
    BY <1>1, <2>1, <2>2, LateStepInv DEF AfterResult
<1> QED
  BY <1>4, <1>5, <1>6 DEF PutSecret

LEMMA ReportInv == RaInv /\ FlowInv /\ Report => RaInv'
<1> SUFFICES ASSUME RaInv, FlowInv, Report PROVE RaInv'
  OBVIOUS
<1>1. /\ pc = "report"
      /\ verdict' = (IF jret = "ok" THEN "Success" ELSE "Failed")
      /\ pc' = (IF jret = "ok" THEN "idle" ELSE "stopped")
      /\ UNCHANGED <<enclaveVars, gret, undef, prevId, enclave_id, busy_retry_time, accepted,
                     failedStep, m2, ptr, issued>>
  BY DEF Report, memVars, spVars
<1>2. accepted <=> jret = "ok"
  BY <1>1 DEF FlowInv, AfterResult
<1>3. RaTypes' /\ BirthInv' /\ UNCHANGED <<life, ra, ga, gb>>
  BY <1>1, SteadyTypes DEF RaInv, RaTypes
<1>4. DoomInv'
  BY <1>1 DEF DoomInv, EarlySteps, LateSteps
<1>5. SoundInv'
  BY <1>1, <1>2 DEF RaInv, SoundInv, EarlySteps
<1>6. EvidenceInv'
  BY <1>1, <1>2, <1>3 DEF RaInv, EvidenceInv, KeysOf
<1>7. BudgetInv'
  BY <1>1, <1>2 DEF RaInv, BudgetInv, AfterResult
<1> QED
  BY <1>3, <1>4, <1>5, <1>6, <1>7 DEF RaInv

(* The process dies, or is about to: nothing more is accepted.             *)
LEMMA EndInv ==
  ASSUME RaInv, FlowInv, pc' = "dead",
         UNCHANGED <<enclaveVars, gret, undef, prevId, enclave_id, accepted, verdict,
                     failedStep, m2, ptr, issued>>
  PROVE  RaInv'
<1>1. RaTypes' /\ BirthInv' /\ UNCHANGED <<life, ra, ga, gb>>
  BY SteadyTypes DEF RaInv, RaTypes
<1>2. DoomInv' /\ SoundInv' /\ BudgetInv'
  BY DEF DoomInv, SoundInv, BudgetInv, EarlySteps, LateSteps, AfterResult
<1>3. EvidenceInv'
  BY <1>1 DEF RaInv, EvidenceInv, KeysOf
<1> QED
  BY <1>1, <1>2, <1>3 DEF RaInv

LEMMA OutOfMemoryInv == RaInv /\ FlowInv /\ OutOfMemory => RaInv'
<1> SUFFICES ASSUME RaInv, FlowInv, OutOfMemory PROVE RaInv'
  OBVIOUS
<1>1. PICK p \in {"config", "msg1", "proc_msg2"} : Goto(p, "null_write")
  BY DEF OutOfMemory
<1>2. /\ pc \in BeforeResult /\ pc' = "null_write" /\ cleanUP(1, ptr, gret)
      /\ ptr' = AfterCleanUP(ptr) /\ failedStep' = TRUE
      /\ UNCHANGED <<verdict, prevId, enclave_id, accepted, m2>>
  BY <1>1 DEF OutOfMemory, Goto, BeforeResult
<1>3. /\ Unmoved /\ UNCHANGED <<ga, gb>>
      /\ life' \in [EnclaveIds -> Life] /\ IsPerEnclave(ra')
      /\ gret' \in Codes /\ undef' \in BOOLEAN
  BY <1>2, CleanUpGone DEF RaInv, RaTypes
<1>4. RaTypes'
  BY <1>2, <1>3, AfterCleanUPTypes DEF RaInv, RaTypes, IsPerEnclave
<1>5. BirthInv'
  BY <1>2, <1>3, BirthKept DEF RaInv
<1>6. ~accepted /\ verdict # "Success"
  BY <1>2, NotYetAccepted DEF RaInv
<1>7. DoomInv' /\ SoundInv' /\ EvidenceInv' /\ BudgetInv'
  BY <1>2, <1>6
     DEF DoomInv, SoundInv, EvidenceInv, BudgetInv, EarlySteps, LateSteps, AfterResult
<1> QED
  BY <1>4, <1>5, <1>7 DEF RaInv

(* A lost enclave is still this challenge's: it is not gone.               *)
LEMMA PowerLossInv == RaInv /\ PowerLoss => RaInv'
<1> SUFFICES ASSUME RaInv, PowerLoss PROVE RaInv'
  OBVIOUS
<1>1. /\ life' = [e \in EnclaveIds |-> IF Live(e) THEN "lost" ELSE life[e]]
      /\ UNCHANGED <<ra, ga, gb>>
      /\ UNCHANGED <<pc, gret, undef, verdict, prevId, enclave_id, busy_retry_time, accepted,
                     failedStep>>
      /\ UNCHANGED <<ptr, m1, m2, m3, issued>>
  BY DEF PowerLoss, PowerTransition, appVars, memVars, spVars
<1>2. RaTypes'
  BY <1>1 DEF RaInv, RaTypes, Life, Live, IsPerEnclave
<1>3. BirthInv'
  <2>1. Unmoved
    BY <1>1 DEF Unmoved, Live
  <2> QED
    BY <1>1, <2>1, BirthKept DEF RaInv
<1>4. Gone(enclave_id)' <=> Gone(enclave_id)
  BY <1>1 DEF Gone, Live
<1>5. DoomInv' /\ SoundInv'
  BY <1>1, <1>4 DEF RaInv, DoomInv, SoundInv, Msg2Ga
<1>6. EvidenceInv' /\ BudgetInv'
  BY <1>1 DEF RaInv, EvidenceInv, BudgetInv, KeysOf
<1> QED
  BY <1>2, <1>3, <1>5, <1>6 DEF RaInv

LEMMA StutterInv == RaInv /\ (PressKey \/ UNCHANGED vars) => RaInv'
<1> SUFFICES ASSUME RaInv, PressKey \/ UNCHANGED vars PROVE RaInv'
  OBVIOUS
<1>1. /\ UNCHANGED <<enclaveVars, pc, gret, undef, verdict, prevId, enclave_id,
                     busy_retry_time, accepted, failedStep>>
      /\ UNCHANGED <<ptr, m1, m2, m3, issued>>
  BY DEF PressKey, vars, appVars, memVars, spVars
<1>2. RaTypes' /\ BirthInv' /\ UNCHANGED <<life, ra, ga, gb>>
  BY <1>1, SteadyTypes DEF RaInv, RaTypes
<1>3. DoomInv' /\ SoundInv'
  BY <1>1, <1>2 DEF RaInv, DoomInv, SoundInv, Gone, Msg2Ga
<1>4. EvidenceInv' /\ BudgetInv'
  BY <1>1, <1>2 DEF RaInv, EvidenceInv, BudgetInv, KeysOf
<1> QED
  BY <1>2, <1>3, <1>4 DEF RaInv
----------------------------------------------------------------------------
LEMMA RaNextInv == RaInv /\ FlowInv /\ [Next]_vars => RaInv'
<1> SUFFICES ASSUME RaInv, FlowInv, [Next]_vars PROVE RaInv'
  OBVIOUS
<1>1. CASE call_RA_SIM
  BY <1>1, ChallengeInv
<1>2. CASE config_extended_ID \/ CreateEnclave \/ RetryLostEnclave \/ InitRa
  BY <1>2, ConfigInv, CreateInv, RetryInv, InitRaInv
<1>3. CASE send_MSG0 \/ AllocMsg1 \/ GetMsg1Busy \/ GetMsg1 \/ GetMsg1Fails \/ SendMsg1
  BY <1>3, Msg0Inv, AllocMsg1Inv, BusyInv, GetMsg1Inv, SendMsg1Inv
<1>4. CASE verifyMSG2 \/ StartMsg3 \/ ProcMsg2Busy \/ ProcMsg2 \/ ProcMsg2Fails \/ SendMsg3
  BY <1>4, Verify2Inv, StartMsg3Inv, BusyInv, ProcMsg2Inv, ProcMsg2FailsInv, SendMsg3Inv
<1>5. CASE VerifyMac \/ VerifyDangling \/ PutSecret \/ Report
  BY <1>5, VerifyMacInv, PutSecretInv, ReportInv
<1>6. CASE NullMsg2 \/ NullAttResult \/ NullWrite
  <2>1. /\ pc' = "dead"
        /\ UNCHANGED <<enclaveVars, gret, undef, prevId, enclave_id, accepted, verdict,
                       failedStep, m2, ptr, issued>>
    BY <1>6 DEF NullMsg2, NullAttResult, NullWrite, Goto, NoCleanUP, memVars, spVars
  <2> QED
    BY <2>1, EndInv
<1>7. CASE UndefinedAbort
  <2>1. /\ pc' = "dead"
        /\ UNCHANGED <<enclaveVars, gret, undef, prevId, enclave_id, accepted, verdict,
                       failedStep, m2, ptr, issued>>
    BY <1>7 DEF UndefinedAbort, memVars, spVars
  <2> QED
    BY <2>1, EndInv
<1>8. CASE OutOfMemory
  BY <1>8, OutOfMemoryInv
<1>9. CASE PowerLoss
  BY <1>9, PowerLossInv
<1>10. CASE PressKey \/ UNCHANGED vars
  BY <1>10, StutterInv
<1> QED
  BY <1>1, <1>2, <1>3, <1>4, <1>5, <1>6, <1>7, <1>8, <1>9, <1>10 DEF Next, ServerStep

(* The strengthened invariant of call_RA_SIM and isv_app.cpp.              *)
THEOREM RaInvariance == Spec => []RaInv
<1> QED
  BY RaInitInv, RaNextInv, FlowInvariance, PTL DEF Spec

(***************************************************************************)
(* call_RA_SIM overwrites or drops most of its codes, and yet the provider *)
(* accepts no challenge in which a call failed before MSG3.                *)
(***************************************************************************)
THEOREM RaFailedStepNeverAccepted == Spec => []FailedStepNeverAccepted
<1>1. RaInv => FailedStepNeverAccepted
  BY DEF RaInv, EvidenceInv, FailedStepNeverAccepted
<1> QED
  BY <1>1, RaInvariance, PTL

(***************************************************************************)
(* "Success" is answered for evidence of an enclave created in the very    *)
(* challenge, on whose keys it and the provider agree, however many        *)
(* challenges have left their globals behind.                              *)
(***************************************************************************)
THEOREM RaSuccessMeansAttested == Spec => []SuccessMeansAttested
<1>1. RaInv => SuccessMeansAttested
  BY DEF RaInv, EvidenceInv, SuccessMeansAttested
<1> QED
  BY <1>1, RaInvariance, PTL

(* busy_retry_time has not run past 0 when a retry loop looks at it.       *)
THEOREM RaRetryBudget == Spec => []RetryBudget
<1>1. RaInv => RetryBudget
  BY DEF RaInv, BudgetInv, RetryBudget
<1> QED
  BY <1>1, RaInvariance, PTL

(***************************************************************************)
(* The provider accepts evidence only from a process whose heap is sound   *)
(* and whose global code is clean.                                         *)
(***************************************************************************)
THEOREM RaAcceptedInSoundProcess == Spec => AcceptedInSoundProcess
<1>1. RaInv /\ FlowInv /\ [Next]_vars => [accepted' /\ ~accepted => gret = "ok" /\ ~undef]_vars
  <2> SUFFICES ASSUME RaInv, FlowInv, [Next]_vars, accepted', ~accepted
               PROVE  gret = "ok" /\ ~undef
    OBVIOUS
  <2>1. SendMsg3
    <3>1. ~UNCHANGED accepted
      OBVIOUS
    <3> QED
      BY <3>1
         DEF Next, ServerStep, vars, appVars, call_RA_SIM, PressKey, OutOfMemory, UndefinedAbort,
             PowerLoss, config_extended_ID, CreateEnclave, RetryLostEnclave, InitRa, send_MSG0,
             AllocMsg1, GetMsg1Busy, GetMsg1, GetMsg1Fails, SendMsg1, verifyMSG2, StartMsg3,
             NullMsg2, ProcMsg2Busy, ProcMsg2, ProcMsg2Fails, NullAttResult, VerifyMac,
             VerifyDangling, PutSecret, NullWrite, Report
  <2>2. pc = "send3" /\ spRet' = "SP_OK" /\ \E fault : sp_ra_proc_msg3_req(m3, fault)
    BY <2>1 DEF SendMsg3, Goto
  <2>3. PICK fault : Msg3Ret(m3, fault) = "SP_OK"
    BY <2>2 DEF sp_ra_proc_msg3_req
  <2>4. m3 # NoMsg3
    BY <2>3, Msg3Accepts
  <2> QED
    BY <2>2, <2>4 DEF RaInv, EvidenceInv
<1> QED
  BY <1>1, RaInvariance, FlowInvariance, PTL DEF Spec, AcceptedInSoundProcess

----------------------------------------------------------------------------
(* After a refused MSG3 the enclave is gone, while its result is handled.  *)
RefusedInv ==
  pc \in {"verify_mac", "put_secret"} /\ ~accepted => Gone(enclave_id)

LEMMA RefusedNextInv == RaInv /\ RefusedInv /\ [Next]_vars => RefusedInv'
<1> SUFFICES ASSUME RaInv, RefusedInv, [Next]_vars PROVE RefusedInv'
  OBVIOUS
<1>1. CASE SendMsg3
  <2>1. CASE spRet' = "SP_OK"
    BY <1>1, <2>1 DEF SendMsg3, RefusedInv
  <2>2. CASE spRet' # "SP_OK"
    <3>1. cleanUP(1, ptr, gret) /\ UNCHANGED <<enclave_id, m2>>
      BY <1>1, <2>2 DEF SendMsg3
    <3> QED
      BY <3>1, CleanUpGone DEF RaInv, RaTypes, RefusedInv
  <2> QED
    BY <2>1, <2>2
<1>2. CASE VerifyMac \/ VerifyDangling
  <2>1. pc = "verify_mac" /\ UNCHANGED <<enclave_id, accepted, m2>>
    BY <1>2 DEF VerifyMac, VerifyDangling, Goto
  <2>2. CASE UNCHANGED enclaveVars
    BY <2>1, <2>2 DEF RefusedInv, Gone, enclaveVars
  <2>3. CASE \E n : cleanUP(n, ptr, "error")
    BY <2>1, <2>3, CleanUpGone DEF RaInv, Codes, RefusedInv
  <2> QED
    BY <1>2, <2>2, <2>3 DEF VerifyMac, VerifyDangling
<1>3. CASE PowerLoss
  <2>1. /\ life' = [e \in EnclaveIds |-> IF Live(e) THEN "lost" ELSE life[e]]
        /\ UNCHANGED <<pc, enclave_id, accepted>>
    BY <1>3 DEF PowerLoss, PowerTransition, appVars
  <2> QED
    BY <2>1 DEF RefusedInv, Gone, Live
<1>4. CASE PressKey \/ UNCHANGED vars
  <2>1. UNCHANGED <<life, pc, enclave_id, accepted>>
    BY <1>4 DEF PressKey, vars, appVars, enclaveVars
  <2> QED
    BY <2>1 DEF RefusedInv, Gone
<1>5. CASE ~(SendMsg3 \/ VerifyMac \/ VerifyDangling \/ PowerLoss \/ PressKey \/ UNCHANGED vars)
  <2>1. pc' \notin {"verify_mac", "put_secret"}
    BY <1>5
       DEF Next, ServerStep, Goto, call_RA_SIM, OutOfMemory, UndefinedAbort, config_extended_ID,
           CreateEnclave, RetryLostEnclave, InitRa, send_MSG0, AllocMsg1, GetMsg1Busy, GetMsg1,
           GetMsg1Fails, SendMsg1, verifyMSG2, StartMsg3, NullMsg2, ProcMsg2Busy, ProcMsg2,
           ProcMsg2Fails, NullAttResult, PutSecret, NullWrite, Report
  <2> QED
    BY <2>1 DEF RefusedInv
<1> QED
  BY <1>1, <1>2, <1>3, <1>4, <1>5

(* cleanUP and a power transition only wipe secrets.                       *)
LEMMA SecretWiped ==
  ASSUME NEW e \in EnclaveIds,
         (\E close : CloseAndDestroy(enclave_id, close)) \/ PowerTransition
  PROVE  secret'[e] = secret[e] \/ secret'[e] = NoSecret
BY DEF CloseAndDestroy, PowerTransition

(* put_secret_data is the only step that gives a secret to an enclave.     *)
LEMMA SecretGiven ==
  ASSUME [Next]_vars, NEW e \in EnclaveIds, secret'[e] # secret[e], secret'[e] # NoSecret
  PROVE  pc = "put_secret" /\ Live(enclave_id)
<1>1. ~(UNCHANGED secret) /\ ~PowerTransition
      /\ ~(\E close : CloseAndDestroy(enclave_id, close))
  BY SecretWiped
<1>2. ~NoCleanUP /\ ~(\E n, p, g : cleanUP(n, p, g)) /\ ~UNCHANGED enclaveVars
  BY <1>1 DEF NoCleanUP, cleanUP, enclaveVars
<1>3. PutSecret
  <2>1. ~call_RA_SIM /\ ~PressKey /\ ~OutOfMemory /\ ~UndefinedAbort /\ ~PowerLoss
        /\ ~UNCHANGED vars
    BY <1>1, <1>2 DEF call_RA_SIM, PressKey, OutOfMemory, UndefinedAbort, PowerLoss, vars
  <2>2. ~config_extended_ID /\ ~CreateEnclave /\ ~RetryLostEnclave /\ ~InitRa /\ ~send_MSG0
    BY <1>1, <1>2 DEF config_extended_ID, CreateEnclave, RetryLostEnclave, InitRa, send_MSG0,
                      sgx_create_enclave, enclave_init_ra
  <2>3. ~AllocMsg1 /\ ~GetMsg1Busy /\ ~GetMsg1 /\ ~GetMsg1Fails /\ ~SendMsg1 /\ ~verifyMSG2
    BY <1>1, <1>2 DEF AllocMsg1, GetMsg1Busy, GetMsg1, GetMsg1Fails, SendMsg1, verifyMSG2,
                      sgx_ra_get_msg1
  <2>4. ~StartMsg3 /\ ~NullMsg2 /\ ~ProcMsg2Busy /\ ~ProcMsg2 /\ ~ProcMsg2Fails /\ ~SendMsg3
    BY <1>1, <1>2 DEF StartMsg3, NullMsg2, ProcMsg2Busy, ProcMsg2, ProcMsg2Fails, SendMsg3,
                      sgx_ra_proc_msg2
  <2>5. ~NullAttResult /\ ~VerifyMac /\ ~VerifyDangling /\ ~NullWrite /\ ~Report
    BY <1>1, <1>2 DEF NullAttResult, VerifyMac, VerifyDangling, NullWrite, Report
  <2> QED
    BY <2>1, <2>2, <2>3, <2>4, <2>5 DEF Next, ServerStep
<1>4. put_secret_data(enclave_id, att.sk)
  BY <1>2, <1>3 DEF PutSecret
<1> QED
  BY <1>3, <1>4 DEF PutSecret, Goto, put_secret_data, DecryptsSecret, HasKeys

(***************************************************************************)
(* verifyMSG3_and_PutINEnclave goes on after every failure, and still no   *)
(* enclave is given a secret unless the MAC of the result was verified in  *)
(* this challenge, on a sound heap.                                        *)
(***************************************************************************)
THEOREM RaSecretOnlyAfterVerifiedMac == Spec => SecretOnlyAfterVerifiedMac
<1>1. Init => RefusedInv
  BY DEF Init, RefusedInv
<1>2. RaInv /\ RefusedInv /\ [Next]_vars =>
        [(\E e \in EnclaveIds : secret'[e] # secret[e] /\ secret'[e] # NoSecret)
           => gret = "ok" /\ ~undef]_vars
  <2> SUFFICES ASSUME RaInv, RefusedInv, [Next]_vars,
                      NEW e \in EnclaveIds, secret'[e] # secret[e], secret'[e] # NoSecret
               PROVE  gret = "ok" /\ ~undef
    OBVIOUS
  <2>1. pc = "put_secret" /\ Live(enclave_id)
    BY SecretGiven
  <2>2. ~Gone(enclave_id)
    BY <2>1 DEF Live, Gone
  <2>3. accepted
    BY <2>1, <2>2 DEF RefusedInv
  <2> QED
    BY <2>1, <2>2, <2>3 DEF RaInv, SoundInv
<1> QED
  BY <1>1, <1>2, RefusedNextInv, RaInvariance, PTL DEF Spec, SecretOnlyAfterVerifiedMac
=============================================================================
