---------------------------- MODULE EnclaveTools ----------------------------
(***************************************************************************)
(* The other programs around the arithmetic enclave, between the           *)
(* initialize_enclave of module EnclaveHost and their end: the benchmark   *)
(* `main' of sample.cpp, which looks at no status; the console program     *)
(* JavaSGX.Evaluate_Value, whose native functions abort except for         *)
(* sgx_add_enc; and showResult (not_main is the same with a constant       *)
(* expression), which makes one checked call.                              *)
(*                                                                         *)
(* A buffer is "good" when it holds the expression, or its value,          *)
(* encrypted; "sealed" when it holds another value, encrypted; and "bad"   *)
(* when it holds bytes that nobody has encrypted.                          *)
(***************************************************************************)
EXTENDS EnclaveHost

Kinds == {"main", "Evaluate_Value", "showResult"}

VARIABLES
  kind,     \* which of the programs each one is
  step,     \* where its code is
  live,     \* is its enclave there?
  desc,     \* description on the console: one of Descriptions
  ctxt1,    \* the encrypted expression
  res,      \* the encrypted result
  failed,   \* history: an ECALL of this program has failed
  printed   \* what this run of it has shown as result

toolState == <<kind, step, live, desc, ctxt1, res, failed, printed>>
etVars == <<ehVars, toolState>>

Buffer == {"good", "sealed", "bad"}

(* "long": longer than the expression, twice, and 32 bytes.                *)
Descriptions == {"short", "long"}

EtInit ==
  /\ EhInit
  /\ kind = [p \in Others |-> "main"] /\ step = [p \in Others |-> "none"]
  /\ live = [p \in Others |-> FALSE]  /\ desc = [p \in Others |-> "short"]
  /\ ctxt1 = [p \in Others |-> "bad"] /\ res = [p \in Others |-> "bad"]
  /\ failed = [p \in Others |-> FALSE]
  /\ printed = [p \in Others |-> "nothing"]

Set(f, p, v) == f' = [f EXCEPT ![p] = v]

----------------------------------------------------------------------------
ToolStart(p) == Start(p) /\ UNCHANGED toolState

(* What each program does first with its enclave.                          *)
FirstStep(k) ==
  CASE k = "main" -> "encrypt1"
    [] k = "Evaluate_Value" -> "read"
    [] k = "showResult" -> "evaluate"

(* Which program it is does not matter until initialize_enclave is done.   *)
ToolInitialize(p) ==
  /\ initialize_enclave(p)
  /\ IF stage'[p] = "ready"
     THEN /\ \E k \in Kinds : Set(kind, p, k) /\ Set(step, p, FirstStep(k))
          /\ Set(live, p, TRUE)
     ELSE UNCHANGED <<kind, step, live>>
  /\ UNCHANGED <<desc, ctxt1, res, failed, printed>>

(* The process ends in any way, and its memory and its enclave with it.    *)
Gone(p) ==
  /\ Set(kind, p, "main") /\ Set(step, p, "none") /\ Set(live, p, FALSE)
  /\ Set(desc, p, "short") /\ Set(ctxt1, p, "bad") /\ Set(res, p, "bad")
  /\ Set(failed, p, FALSE) /\ Set(printed, p, "nothing")

ToolKilled(p) == Killed(p) /\ Gone(p)

(* A power transition, or a crash of the enclave.                          *)
EnclaveGone(p) ==
  /\ live[p] /\ stage[p] = "ready"
  /\ Set(live, p, FALSE)
  /\ UNCHANGED <<ehVars, kind, step, desc, ctxt1, res, failed, printed>>

At(p, s) == stage[p] = "ready" /\ step[p] = s

(* An ECALL succeeds only in an enclave that is there, and always may fail.*)
Succeeds(p) == live[p] /\ UNCHANGED failed
Fails(p) == Set(failed, p, TRUE)

----------------------------------------------------------------------------
(***************************************************************************)
(* Evaluate_Value: the expression from Expression.txt ("0" when there is   *)
(* none), or from the user when the file is empty; then a description.     *)
(* The end of the input is a null, on which trim() throws; the second      *)
(* reader meets it also when the first one has taken both lines.           *)
(***************************************************************************)
ReadExpression(p) ==
  /\ At(p, "read")
  /\ \/ Set(step, p, "encrypt1") /\ UNCHANGED <<ehVars, kind, live, desc, ctxt1, res,
                                                 failed, printed>>
     \/ Exit(p) /\ Gone(p)

ReadDescription(p) ==
  /\ At(p, "describe")
  /\ \/ /\ Set(step, p, "encrypt2")
        /\ \E d \in Descriptions : Set(desc, p, d)
        /\ UNCHANGED <<ehVars, kind, live, ctxt1, res, failed, printed>>
     \/ Exit(p) /\ Gone(p)

(* Mutant: sgx_enc does not look at its status.                            *)
EncryptExpression_Unchecked(p) ==
  /\ At(p, "encrypt1")
  /\ Set(step, p, IF kind[p] = "main" THEN "encrypt2" ELSE "describe")
  /\ \/ Succeeds(p) /\ Set(ctxt1, p, "good")
     \/ Fails(p) /\ UNCHANGED ctxt1
  /\ UNCHANGED <<ehVars, kind, live, desc, res, printed>>

(* ecall_encrypt of the expression.  sgx_enc aborts when it fails; the     *)
(* benchmark goes on with what the array held.                             *)
EncryptExpression(p) ==
  /\ At(p, "encrypt1")
  /\ \/ /\ \/ Succeeds(p) /\ Set(ctxt1, p, "good")
           \/ kind[p] = "main" /\ Fails(p) /\ UNCHANGED ctxt1
        /\ Set(step, p, IF kind[p] = "main" THEN "encrypt2" ELSE "describe")
        /\ UNCHANGED <<ehVars, kind, live, desc, res, printed>>
     \/ kind[p] = "Evaluate_Value" /\ Exit(p) /\ Gone(p)

(* The same of the description, which is only decrypted again.             *)
EncryptDescription(p) ==
  /\ At(p, "encrypt2")
  /\ \/ /\ Succeeds(p) \/ (kind[p] = "main" /\ Fails(p))
        /\ Set(step, p, "add")
        /\ UNCHANGED <<ehVars, kind, live, desc, ctxt1, res, printed>>
     \/ kind[p] = "Evaluate_Value" /\ Exit(p) /\ Gone(p)

(***************************************************************************)
(* What ecall_add_enc makes of the expression.  The enclave does not       *)
(* notice that a tag is wrong and evaluates what it finds in its buffer.   *)
(* The benchmark encrypts the terminator of its text too; the console does *)
(* not, and behind the text may lie what is left of a long description.    *)
(***************************************************************************)
Evaluations(p) ==
  CASE ctxt1[p] # "good" -> {"sealed"}
    [] ctxt1[p] = "good" /\ kind[p] = "Evaluate_Value" /\ desc[p] = "long" ->
         {"good", "sealed"}
    [] OTHER -> {"good"}

(* Nobody looks at this status; the evaluation may crash the enclave.      *)
AddEncrypted(p) ==
  /\ At(p, "add")
  /\ Set(step, p, "decrypt")
  /\ \/ Succeeds(p) /\ UNCHANGED live /\ \E r \in Evaluations(p) : Set(res, p, r)
     \/ Fails(p) /\ UNCHANGED res /\ \E l \in {live[p], FALSE} : Set(live, p, l)
  /\ UNCHANGED <<ehVars, kind, desc, ctxt1, printed>>

(* A wrong tag leaves zeros in the enclave's copy of the output buffer.    *)
Shown(r) ==
  CASE r = "good" -> "right"
    [] r = "sealed" -> "wrong"
    [] r = "bad" -> "blank"

(* ecall_decrypt.  The console prints its text before it decrypts in Java; *)
(* the benchmark prints its malloc'ed text even when the call has failed.  *)
Decrypt(p) ==
  /\ At(p, "decrypt")
  /\ \/ /\ \/ Succeeds(p) /\ Set(printed, p, Shown(res[p]))
           \/ kind[p] = "main" /\ Fails(p) /\ Set(printed, p, "wrong")
        /\ Set(step, p, IF kind[p] = "main" THEN "destroy" ELSE "java")
        /\ UNCHANGED <<ehVars, kind, live, desc, ctxt1, res>>
     \/ kind[p] = "Evaluate_Value" /\ Exit(p) /\ Gone(p)

(* JavaSGX.decrypt: an exception for a wrong tag, else the text once more. *)
(* In either case main ends, and nobody destroys the enclave.              *)
JavaDecrypt(p) ==
  /\ At(p, "java")
  /\ Exit(p) /\ Gone(p)

----------------------------------------------------------------------------
(* showResult: ecall_Arith_Core returns 0 whatever the expression is worth *)
(* and its host prints that the application ran with success.              *)
EvaluatePlain(p) ==
  /\ At(p, "evaluate")
  /\ \/ /\ Succeeds(p)
        /\ Set(printed, p, "success")
        /\ Set(step, p, "destroy")
        /\ UNCHANGED <<ehVars, kind, live, desc, ctxt1, res>>
     \/ Exit(p) /\ Gone(p)

(* DESTROY_ENCLAVE, and the end of main.                                   *)
DESTROY_ENCLAVE(p) ==
  /\ At(p, "destroy")
  /\ Exit(p) /\ Gone(p)

----------------------------------------------------------------------------
(* A step of the server, or one that no program makes.                     *)
ServerStep ==
  /\ \/ Start(Server) \/ initialize_enclave(Server) \/ Killed(Server)
     \/ \E x \in Exprs : Evaluate_ValueInput(x)
     \/ sgx_enc \/ sgx_add_enc \/ sgx_add_enc_fails \/ sgx_dec \/ decrypt
     \/ PowerTransition
  /\ UNCHANGED toolState

ToolStep(p) ==
  \/ ToolStart(p) \/ ToolInitialize(p) \/ ToolKilled(p) \/ EnclaveGone(p)
  \/ ReadExpression(p) \/ EncryptExpression(p)
  \/ ReadDescription(p) \/ EncryptDescription(p)
  \/ AddEncrypted(p) \/ Decrypt(p) \/ JavaDecrypt(p)
  \/ EvaluatePlain(p) \/ DESTROY_ENCLAVE(p)

EtNext == ServerStep \/ \E p \in Others : ToolStep(p)

EtSpec == EtInit /\ [][EtNext]_etVars

----------------------------------------------------------------------------
(***************************************************************************)
(* What a program shows as its result.  Of all the statuses that are not   *)
(* looked at, only those of the benchmark let a wrong result through; on   *)
(* the console a wrong one comes from a long description alone, through    *)
(* the text that nobody terminates; an empty one is the trace of a call    *)
(* that failed; and showResult reports success only of a call that was     *)
(* made.                                                                   *)
(***************************************************************************)
ResultsExplained ==
  \A p \in Others :
    /\ printed[p] = "wrong" =>
         \/ kind[p] = "main" /\ failed[p]
         \/ kind[p] = "Evaluate_Value" /\ desc[p] = "long"
    /\ printed[p] = "blank" => failed[p]
    /\ printed[p] = "success" => ~failed[p]
=============================================================================
