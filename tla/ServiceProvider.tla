-------------------------- MODULE ServiceProvider --------------------------
(***************************************************************************)
(* The attestation service provider of service_provider.cpp, with the      *)
(* simulated attestation service of ias_ra.cpp behind it.  It is linked    *)
(* into the server process, keeps ONE session (the global g_sp_db) and     *)
(* answers three requests: MSG0 (register), MSG1 (start a key exchange)    *)
(* and MSG3 (check the enclave's evidence and issue the result message).   *)
(*                                                                         *)
(* Cryptography is symbolic.  An ephemeral public key is a number, a key   *)
(* derived from the shared secret of g_a and g_b is the pair <<ga, gb>> of *)
(* the exchange (the field that holds it says which of SMK, MK, SK and VK  *)
(* it is), and a MAC or a ciphertext is named by the key that made it.     *)
(***************************************************************************)
EXTENDS Naturals

CONSTANTS
  Gids,            \* extended EPID group ids a platform may have
  SupportedGids,   \* those in g_extended_epid_groups
  GaKeys,          \* public keys an enclave may offer in MSG1
  MaxGb            \* bound: key pairs the provider generates

ASSUME GidsAssumption == SupportedGids \subseteq Gids
ASSUME KeysAssumption == GaKeys \subseteq Nat \ {0} /\ MaxGb \in Nat

VARIABLES
  g_is_sp_registered,
  g_sp_gid,        \* group g_sp_extended_epid_group_id points to
  g_sp_db,         \* the one session of the provider
  gbCount,         \* key pairs generated so far; g_b is the latest of them
  spRet,           \* return code of the latest request
  sent,            \* history: exchanges <<ga, gb>> answered with a MSG2
  issued           \* history: g_sp_db at each result message issued

spVars == <<g_is_sp_registered, g_sp_gid, g_sp_db, gbCount, spRet, sent, issued>>

Exchange == Nat \X Nat
NoKey == <<0, 0>>

(* SP_FAILED stands for -1, SP_INTERNAL_ERROR and the library's own codes. *)
SpRets == {"SP_OK", "SP_UNSUPPORTED", "SP_PROTOCOL_ERROR",
           "SP_INTEGRITY_FAILED", "SP_IAS_FAILED", "SP_FAILED"}

Session == [ga: Nat, gb: Nat, smk: Exchange, mk: Exchange, sk: Exchange, vk: Exchange]

NoSession == [ga |-> 0, gb |-> 0, smk |-> NoKey, mk |-> NoKey, sk |-> NoKey, vk |-> NoKey]

(***************************************************************************)
(* MSG3: the g_a the enclave used, the key of its MAC, and what the quoted *)
(* report data hashes (g_a, g_b and VK).  NoMsg3 is the empty message the  *)
(* application sends when it has no MSG3 body.                             *)
(***************************************************************************)
Msg3Type == [ga: Nat, mac: Exchange, rga: Nat, rgb: Nat, rvk: Exchange]

NoMsg3 == [ga |-> 0, mac |-> NoKey, rga |-> 0, rgb |-> 0, rvk |-> NoKey]

Msg3For(ga, gb) ==
  [ga |-> ga, mac |-> <<ga, gb>>, rga |-> ga, rgb |-> gb, rvk |-> <<ga, gb>>]

(***************************************************************************)
(* derive_key of ecp.cpp: any of SMK, MK, SK and VK, a function of the     *)
(* shared secret of g_a and g_b and of the label of the key.               *)
(***************************************************************************)
derive_key(ga, gb) == <<ga, gb>>

(***************************************************************************)
(* The simulated attestation service: its revocation list is empty, its    *)
(* enrolment never fails, and it finds every quote good.                   *)
(***************************************************************************)
ias_get_sigrl == <<>>

ias_verify_attestation_evidence ==
  [status |-> "IAS_QUOTE_OK", pse_status |-> "IAS_PSE_OK"]

(***************************************************************************)
(* MSG2: g_b, the signature over g_b and g_a with the provider's long-term *)
(* key, and the CMAC with SMK.  `s' is the session it is assembled from.   *)
(***************************************************************************)
Msg2For(s) ==
  [gb |-> s.gb, sign_gb_ga |-> <<s.gb, s.ga>>, mac |-> s.smk, sig_rl |-> ias_get_sigrl]

Msg2Type == [gb: Nat, sign_gb_ga: Exchange, mac: Exchange, sig_rl: {ias_get_sigrl}]

----------------------------------------------------------------------------
SpInit ==
  /\ g_is_sp_registered = FALSE
  /\ g_sp_gid \in Gids        \* NULL until registration, and never read before
  /\ g_sp_db = NoSession
  /\ gbCount = 0
  /\ spRet = "SP_OK"
  /\ sent = {}
  /\ issued = {}

(***************************************************************************)
(* MSG0.  A group other than the registered one is looked up again; when   *)
(* it is not supported the request fails and the earlier registration      *)
(* stays.  Enrolment with the simulated service always succeeds.           *)
(***************************************************************************)
sp_ra_proc_msg0_req(gid) ==
  /\ UNCHANGED <<g_sp_db, gbCount, sent, issued>>
  /\ \/ /\ g_is_sp_registered /\ g_sp_gid = gid
        /\ spRet' = "SP_OK"
        /\ UNCHANGED <<g_is_sp_registered, g_sp_gid>>
     \/ /\ ~(g_is_sp_registered /\ g_sp_gid = gid)
        /\ gid \in SupportedGids
        /\ g_is_sp_registered' = TRUE
        /\ g_sp_gid' = gid
        /\ spRet' = "SP_OK"
     \/ /\ ~(g_is_sp_registered /\ g_sp_gid = gid)
        /\ gid \notin SupportedGids
        /\ spRet' = "SP_UNSUPPORTED"
        /\ UNCHANGED <<g_is_sp_registered, g_sp_gid>>

(***************************************************************************)
(* MSG1 writes g_a, g_b, SMK, MK, SK and VK into g_sp_db one after the     *)
(* other.  Any of the library calls between them may fail, and then the    *)
(* fields written so far stay: `done' of the six are written.              *)
(***************************************************************************)
(* Mutant: SK is derived but not stored.                                   *)
DbAfter_NoSk(ga, gb, done) ==
  [ga  |-> IF done >= 1 THEN ga ELSE g_sp_db.ga,
   gb  |-> IF done >= 2 THEN gb ELSE g_sp_db.gb,
   smk |-> IF done >= 3 THEN derive_key(ga, gb) ELSE g_sp_db.smk,
   mk  |-> IF done >= 4 THEN derive_key(ga, gb) ELSE g_sp_db.mk,
   sk  |-> g_sp_db.sk,
   vk  |-> IF done >= 6 THEN derive_key(ga, gb) ELSE g_sp_db.vk]

DbAfter(ga, gb, done) ==
  [ga  |-> IF done >= 1 THEN ga ELSE g_sp_db.ga,
   gb  |-> IF done >= 2 THEN gb ELSE g_sp_db.gb,
   smk |-> IF done >= 3 THEN derive_key(ga, gb) ELSE g_sp_db.smk,
   mk  |-> IF done >= 4 THEN derive_key(ga, gb) ELSE g_sp_db.mk,
   sk  |-> IF done >= 5 THEN derive_key(ga, gb) ELSE g_sp_db.sk,
   vk  |-> IF done >= 6 THEN derive_key(ga, gb) ELSE g_sp_db.vk]

(* The revocation list is read first and cannot fail, so g_a is written.   *)
Msg1Steps == 1 .. 6

(* MSG1 that reaches its end: MSG2 for <<ga, gb>> goes to the application. *)
Msg1Succeeds(ga) ==
  /\ g_is_sp_registered
  /\ gbCount' = gbCount + 1
  /\ g_sp_db' = DbAfter(ga, gbCount', 6)
  /\ sent' = sent \union {<<ga, gbCount'>>}
  /\ spRet' = "SP_OK"
  /\ UNCHANGED <<g_is_sp_registered, g_sp_gid, issued>>

(* MSG1 that stops after `done' writes: no MSG2 (its buffer is freed).     *)
Msg1Fails(ga, done) ==
  /\ g_is_sp_registered
  /\ gbCount' = IF done >= 2 THEN gbCount + 1 ELSE gbCount
  /\ g_sp_db' = DbAfter(ga, gbCount', done)
  /\ spRet' = "SP_FAILED"
  /\ UNCHANGED <<g_is_sp_registered, g_sp_gid, sent, issued>>

Msg1Unregistered ==
  /\ ~g_is_sp_registered
  /\ spRet' = "SP_UNSUPPORTED"
  /\ UNCHANGED <<g_is_sp_registered, g_sp_gid, g_sp_db, gbCount, sent, issued>>

Msg3Faults == {"none", "cmac", "hash", "ias", "result"}

(***************************************************************************)
(* MSG3: the checks in the order of the code.  `fault' says which call of  *)
(* the library fails, if any: the CMAC that precedes the integrity checks, *)
(* a hash of the report data, the attestation service's signature or the   *)
(* making of the result message.                                           *)
(***************************************************************************)
(* Mutant: the report hash leaves out g_b.                                 *)
ReportMatches_NoGb(m) ==
  m.rga = g_sp_db.ga /\ m.rvk = g_sp_db.vk

ReportMatches(m) ==
  m.rga = g_sp_db.ga /\ m.rgb = g_sp_db.gb /\ m.rvk = g_sp_db.vk

(* The checks of the message's integrity and what follows them.            *)
IntegrityRet(m, fault, iasRet) ==
  CASE fault = "cmac" -> "SP_FAILED"
    [] fault # "cmac" /\ m.mac # g_sp_db.smk -> "SP_INTEGRITY_FAILED"
    [] fault = "hash" /\ m.mac = g_sp_db.smk -> "SP_FAILED"
    [] fault \notin {"cmac", "hash"} /\ m.mac = g_sp_db.smk /\ ~ReportMatches(m) ->
         "SP_INTEGRITY_FAILED"
    [] OTHER -> CASE fault = "ias" -> iasRet
                  [] fault = "result" -> "SP_FAILED"
                  [] OTHER -> "SP_OK"

(* Mutant: the code of the attestation service is passed on as it is.      *)
Msg3Ret_RawCode(m, fault) ==
  CASE m = NoMsg3 -> "SP_FAILED"
    [] m # NoMsg3 /\ ~g_is_sp_registered -> "SP_UNSUPPORTED"
    [] m # NoMsg3 /\ g_is_sp_registered /\ m.ga # g_sp_db.ga -> "SP_PROTOCOL_ERROR"
    [] OTHER -> IntegrityRet(m, fault, "-1")

Msg3Ret(m, fault) ==
  CASE m = NoMsg3 -> "SP_FAILED"
    [] m # NoMsg3 /\ ~g_is_sp_registered -> "SP_UNSUPPORTED"
    [] m # NoMsg3 /\ g_is_sp_registered /\ m.ga # g_sp_db.ga -> "SP_PROTOCOL_ERROR"
    [] OTHER -> IntegrityRet(m, fault, "SP_IAS_FAILED")

sp_ra_proc_msg3_req(m, fault) ==
  /\ spRet' = Msg3Ret(m, fault)
  /\ issued' = IF spRet' = "SP_OK" THEN issued \union {g_sp_db} ELSE issued
  /\ UNCHANGED <<g_is_sp_registered, g_sp_gid, g_sp_db, gbCount, sent>>

(***************************************************************************)
(* The result message: MACed with MK, and holding the secret encrypted     *)
(* with SK when the attestation service found the quote good.              *)
(***************************************************************************)
AttResult ==
  LET report == ias_verify_attestation_evidence
      passed == report.status = "IAS_QUOTE_OK" /\ report.pse_status = "IAS_PSE_OK"
  IN  [mk |-> g_sp_db.mk, sk |-> IF passed THEN g_sp_db.sk ELSE NoKey]

----------------------------------------------------------------------------
(***************************************************************************)
(* The provider alone, driven by applications that may repeat, drop and    *)
(* reorder their requests, and whose enclaves answer a MSG2 honestly: a    *)
(* MSG3 belongs to some exchange the provider has sent a MSG2 for.         *)
(***************************************************************************)
SpNext ==
  \/ \E gid \in Gids : sp_ra_proc_msg0_req(gid)
  \/ \E ga \in GaKeys : gbCount < MaxGb /\ Msg1Succeeds(ga)
  \/ \E ga \in GaKeys, done \in Msg1Steps : gbCount < MaxGb /\ Msg1Fails(ga, done)
  \/ Msg1Unregistered
  \/ \E x \in sent, fault \in Msg3Faults :
       sp_ra_proc_msg3_req(Msg3For(x[1], x[2]), fault)
  \/ sp_ra_proc_msg3_req(NoMsg3, "none")

SpSpec == SpInit /\ [][SpNext]_spVars

----------------------------------------------------------------------------
(* Every variable of the provider keeps its type.                          *)
SpTypeOK ==
  /\ g_is_sp_registered \in BOOLEAN
  /\ g_sp_gid \in Gids
  /\ g_sp_db \in Session
  /\ gbCount \in Nat
  /\ spRet \in SpRets
  /\ sent \subseteq Exchange
  /\ issued \subseteq Session

(***************************************************************************)
(* A result message is only ever issued from a coherent session: the four  *)
(* keys in g_sp_db all come from the g_a and g_b stored beside them, and   *)
(* MSG2 of that exchange did go out.  A MSG1 that fails half-way leaves    *)
(* g_sp_db with fields of two exchanges; the checks of MSG3 must keep such *)
(* a session from ever being attested, whatever MSG3 arrives next.         *)
(***************************************************************************)
OneExchange(s) ==
  LET x == <<s.ga, s.gb>> IN s.smk = x /\ s.mk = x /\ s.sk = x /\ s.vk = x

IssuedCoherent == \A s \in issued : OneExchange(s) /\ <<s.ga, s.gb>> \in sent

(***************************************************************************)
(* Evidence of an exchange that a later MSG1 has superseded is refused,    *)
(* also when the later MSG1 offered the same g_a and failed half-way, so   *)
(* that only g_b gives the old MSG3 away.                                  *)
(***************************************************************************)
SupersededRefused ==
  \A x \in sent : x[2] # gbCount => Msg3Ret(Msg3For(x[1], x[2]), "none") # "SP_OK"

=============================================================================
