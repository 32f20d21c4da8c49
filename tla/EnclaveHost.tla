---------------------------- MODULE EnclaveHost ----------------------------
(***************************************************************************)
(* The untrusted half of the arithmetic enclave: sample.cpp under          *)
(* JavaSGX.Evaluate_ValueInput.  For every expression the server creates   *)
(* an enclave, which nobody destroys, calls it three times and decrypts    *)
(* the result in Java.  Launch tokens are kept in $HOME/enclave.token,     *)
(* which the other enclave programs of the repository use as well, with    *)
(* the same initialize_enclave.  Of those this module has that function;   *)
(* what they do with their enclave is in module EnclaveTools.              *)
(*                                                                         *)
(* A token is named by the program it was made for, and a ciphertext, the  *)
(* key being constant, by the expression it is about.                      *)
(***************************************************************************)
EXTENDS Naturals

CONSTANTS
  Server,     \* the server's JVM
  Others,     \* the other programs that keep their token in the same file
  Exprs,      \* expressions that arrive
  Size,       \* length of each expression, and of its result
  Capacity    \* enclaves that fit in the protected memory

Programs == {Server} \union Others

ASSUME SizeAssumption == Size \in [Exprs -> Nat]
ASSUME CapacityAssumption == Capacity \in Nat
ASSUME NamesAssumption ==
  /\ Server \notin Others
  /\ Programs \intersect {"missing", "empty", "partial", "zero"} = {}

VARIABLES
  file,       \* content of the token file
  stage,      \* what each program does
  token,      \* the token buffer of each program
  hasFile,    \* does it hold the token file open?
  job,        \* expressions under evaluation, at most one
  created,    \* enclaves of this server process; global_eid is the latest
  lost,       \* those up to this one are gone: power transition or crash
  spent,      \* enclaves that have evaluated an expression
  buffer,     \* result of ecall_add_enc: ciphertexts, none for garbage
  onStack,    \* results whose bytes may still lie where the buffer was
  failure,    \* how the latest ecall_add_enc failed
  answer      \* the latest answer, at most one: the expression and the one
              \* whose result it was given

fileVars == <<file, token, hasFile>>
enclaveVars == <<created, lost, spent>>
resultVars == <<buffer, onStack, failure, answer>>
ehVars == <<fileVars, stage, job, enclaveVars, resultVars>>

Alive == created > lost

InitStages == {"open", "make", "read", "create", "save", "write"}
EvalStages == {"enc", "add", "dec", "java"}
Stages == {"down", "idle", "ready"} \union InitStages \union EvalStages

EhInit ==
  /\ file \in {"missing", "empty", "partial"} \union Programs
  /\ stage = [p \in Programs |-> "down"]
  /\ token = [p \in Programs |-> "zero"]
  /\ hasFile = [p \in Programs |-> FALSE]
  /\ job = {}
  /\ created = 0 /\ lost = 0 /\ spent = {}
  /\ buffer = {} /\ onStack = {} /\ failure = "none" /\ answer = {}

Goto(p, s) == stage' = [stage EXCEPT ![p] = s]

----------------------------------------------------------------------------
(* A program starts: the server waits for an expression, another program   *)
(* goes to initialize_enclave at once.                                     *)
Start(p) ==
  /\ stage[p] = "down"
  /\ Goto(p, IF p = Server THEN "idle" ELSE "open")
  /\ UNCHANGED <<fileVars, job, enclaveVars, resultVars>>

(* abort(), an exception that leaves main, or a kill.  The enclaves go     *)
(* with the process, the token file stays as it is.                        *)
Ends(p) ==
  /\ Goto(p, "down")
  /\ UNCHANGED <<token, hasFile>>
  /\ IF p = Server
     THEN /\ job' = {}
          /\ created' = 0 /\ lost' = 0 /\ spent' = {}
          /\ buffer' = {} /\ onStack' = {} /\ failure' = "none" /\ answer' = {}
     ELSE UNCHANGED <<job, enclaveVars, resultVars>>

Killed(p) ==
  /\ stage[p] # "down"
  /\ Ends(p)
  /\ UNCHANGED file

(* Evaluate_ValueInput is called and calls sgx_init.  INIT_ENCLAVE aborts  *)
(* when it cannot enter its directory, which Killed stands for.            *)
Evaluate_ValueInput(x) ==
  /\ stage[Server] = "idle"
  /\ Goto(Server, "open")
  /\ job' = {x}
  /\ buffer' = {} /\ failure' = "none" /\ answer' = {}
  /\ UNCHANGED <<fileVars, enclaveVars, onStack>>

----------------------------------------------------------------------------
(* initialize_enclave, with a token of zeros, step 1: open the token file, *)
(* or create it.  Another program may write the file between the two calls *)
(* of fopen: the second one then empties it.                               *)
OpenToken(p) ==
  /\ stage[p] = "open"
  /\ token' = [token EXCEPT ![p] = "zero"]
  /\ \E found \in BOOLEAN :
       /\ found => file # "missing"
       /\ hasFile' = [hasFile EXCEPT ![p] = found]
       /\ Goto(p, IF found THEN "read" ELSE "make")
  /\ UNCHANGED <<file, job, enclaveVars, resultVars>>

(* A file open for writing cannot be read: the buffer stays zero.          *)
MakeTokenFile(p) ==
  /\ stage[p] = "make"
  /\ Goto(p, "create")
  /\ \/ /\ file' = "empty"
        /\ hasFile' = [hasFile EXCEPT ![p] = TRUE]
     \/ UNCHANGED <<file, hasFile>>
  /\ UNCHANGED <<token, job, enclaveVars, resultVars>>

(* Mutant: what was read of a partial token is not cleared.                *)
ReadToken_NoMemset(p) ==
  /\ stage[p] = "read"
  /\ Goto(p, "create")
  /\ token' = [token EXCEPT ![p] = IF file = "empty" THEN "zero" ELSE file]
  /\ UNCHANGED <<file, hasFile, job, enclaveVars, resultVars>>

(* A partial token is cleared.                                             *)
ReadToken(p) ==
  /\ stage[p] = "read"
  /\ Goto(p, "create")
  /\ token' = [token EXCEPT ![p] = IF file \in Programs THEN file ELSE "zero"]
  /\ UNCHANGED <<file, hasFile, job, enclaveVars, resultVars>>

(* Where initialize_enclave returns to.                                    *)
Initialized(p) == IF p = Server THEN "enc" ELSE "ready"

(* Step 2: sgx_create_enclave, which may give the token a new value.       *)
CreateEnclave(p) ==
  /\ stage[p] = "create"
  /\ \/ /\ token' = [token EXCEPT ![p] = p]
        /\ Goto(p, IF hasFile[p] THEN "save" ELSE Initialized(p))
     \/ /\ Goto(p, Initialized(p))
        /\ UNCHANGED token
  /\ IF p = Server
     THEN created < Capacity /\ created' = created + 1
     ELSE UNCHANGED created
  /\ UNCHANGED <<file, hasFile, job, lost, spent, resultVars>>

(* Mutant: INIT_ENCLAVE does not look at what initialize_enclave returns.  *)
CreateFails_GoOn(p) ==
  /\ stage[p] = "create"
  /\ Goto(p, Initialized(p))
  /\ UNCHANGED <<fileVars, job, enclaveVars, resultVars>>

(* No memory left, or any other failure: INIT_ENCLAVE calls abort.         *)
CreateFails(p) ==
  /\ stage[p] = "create"
  /\ Ends(p)
  /\ UNCHANGED file

(* Step 3: freopen empties the file, or fails and leaves it.               *)
ReopenToken(p) ==
  /\ stage[p] = "save"
  /\ \/ file' = "empty" /\ Goto(p, "write")
     \/ UNCHANGED file /\ Goto(p, Initialized(p))
  /\ UNCHANGED <<token, hasFile, job, enclaveVars, resultVars>>

(* fwrite and fclose.  On a full disk less is written, or nothing; a file  *)
(* that another program has filled in between has its blocks already.      *)
WriteToken(p) ==
  /\ stage[p] = "write"
  /\ Goto(p, Initialized(p))
  /\ \/ file' = token[p]
     \/ file \in {"empty", "partial"} /\ file' \in {file, "partial"}
  /\ UNCHANGED <<token, hasFile, job, enclaveVars, resultVars>>

----------------------------------------------------------------------------
(* Another program has done its work, or its main has thrown.              *)
Exit(p) ==
  /\ stage[p] = "ready"
  /\ Ends(p)
  /\ UNCHANGED file

(* sgx_enc of the text "Data"; a failure aborts.                           *)
sgx_enc ==
  /\ stage[Server] = "enc"
  /\ \/ /\ Alive
        /\ Goto(Server, "add")
        /\ UNCHANGED <<fileVars, job, enclaveVars, resultVars>>
     \/ Ends(Server) /\ UNCHANGED file

sgx_add_enc ==
  /\ stage[Server] = "add" /\ Alive
  /\ Goto(Server, "dec")
  /\ buffer' = job /\ onStack' = onStack \union job
  /\ spent' = spent \union {created}
  /\ UNCHANGED <<fileVars, job, created, lost, failure, answer>>

(***************************************************************************)
(* Nobody looks at the status of this ECALL.  When it fails, the buffer is *)
(* what the stack held there: garbage, or the result of an earlier call    *)
(* with a buffer of the same size, which lay at the same place.  The call  *)
(* is refused when the enclave's heap is too small for the arguments, and  *)
(* the evaluation of a text that is no expression may crash the enclave.   *)
(***************************************************************************)
sgx_add_enc_fails ==
  /\ stage[Server] = "add"
  /\ Goto(Server, "dec")
  /\ \/ Alive /\ failure' = "refused" /\ UNCHANGED <<lost, spent>>
     \/ Alive /\ failure' = "lost" /\ lost' = created /\ spent' = spent \union {created}
     \/ ~Alive /\ failure' = "lost" /\ UNCHANGED <<lost, spent>>
  /\ \E b \in SUBSET {x \in onStack : \A y \in job : Size[x] = Size[y]} :
       (\A x, y \in b : x = y) /\ buffer' = b
  /\ UNCHANGED <<fileVars, job, created, onStack, answer>>

(* Mutant: the status of this ECALL is not looked at either.               *)
sgx_dec_Unchecked ==
  /\ stage[Server] = "dec"
  /\ Goto(Server, "java")
  /\ UNCHANGED <<fileVars, job, enclaveVars, resultVars>>

(* The text it returns is only printed; a failure aborts, and the byte     *)
(* written behind the array may end the process as well.  The enclave      *)
(* itself does not notice that a tag is wrong.                             *)
sgx_dec ==
  /\ stage[Server] = "dec"
  /\ \/ /\ Alive
        /\ Goto(Server, "java")
        /\ UNCHANGED <<fileVars, job, enclaveVars, resultVars>>
     \/ Ends(Server) /\ UNCHANGED file

(* Mutant: the answer is the text that sgx_dec returned, for which no tag  *)
(* is checked.                                                             *)
decrypt_NoTag ==
  /\ stage[Server] = "java"
  /\ Goto(Server, "idle")
  /\ answer' = job \X (IF buffer = {} THEN {"garbage"} ELSE buffer)
  /\ job' = {}
  /\ UNCHANGED <<fileVars, enclaveVars, buffer, onStack, failure>>

(* JavaSGX.decrypt checks the tag; for a wrong one it catches the          *)
(* exception and fails on the null pointer behind.                         *)
decrypt ==
  /\ stage[Server] = "java"
  /\ \/ /\ buffer # {}
        /\ Goto(Server, "idle")
        /\ answer' = job \X buffer
        /\ job' = {}
        /\ UNCHANGED <<fileVars, enclaveVars, buffer, onStack, failure>>
     \/ /\ buffer = {}
        /\ Ends(Server)
        /\ UNCHANGED file

(* A power transition takes every enclave away.                            *)
PowerTransition ==
  /\ stage[Server] # "down" /\ Alive
  /\ lost' = created
  /\ UNCHANGED <<fileVars, stage, job, created, spent, resultVars>>

initialize_enclave(p) ==
  \/ OpenToken(p) \/ MakeTokenFile(p) \/ ReadToken(p)
  \/ CreateEnclave(p) \/ CreateFails(p)
  \/ ReopenToken(p) \/ WriteToken(p)

EhNext ==
  \/ \E p \in Programs : Start(p) \/ initialize_enclave(p) \/ Exit(p) \/ Killed(p)
  \/ \E x \in Exprs : Evaluate_ValueInput(x)
  \/ sgx_enc \/ sgx_add_enc \/ sgx_add_enc_fails \/ sgx_dec \/ decrypt
  \/ PowerTransition

EhSpec == EhInit /\ [][EhNext]_ehVars

----------------------------------------------------------------------------
(* Every variable keeps its type, and the server evaluates one expression  *)
(* at a time, in an enclave.                                               *)
EhTypeOK ==
  /\ file \in {"missing", "empty", "partial"} \union Programs
  /\ stage \in [Programs -> Stages]
  /\ token \in [Programs -> {"zero", "partial"} \union Programs]
  /\ hasFile \in [Programs -> BOOLEAN]
  /\ created \in 0 .. Capacity /\ lost \in 0 .. created
  /\ spent \subseteq 1 .. created
  /\ onStack \subseteq Exprs /\ buffer \subseteq onStack
  /\ failure \in {"none", "refused", "lost"}
  /\ IF stage[Server] \in {"down", "idle"}
     THEN job = {}
     ELSE \E x \in Exprs : job = {x}
  /\ stage[Server] \in EvalStages => created > 0

(***************************************************************************)
(* However the programs that share the token file interleave, are killed   *)
(* or run out of disk, sgx_create_enclave is given no token, in zeros, or  *)
(* a complete one, never a piece of one.                                   *)
(***************************************************************************)
TokenWhole ==
  \A p \in Programs : stage[p] = "create" => token[p] \in {"zero"} \union Programs

(***************************************************************************)
(* An enclave that has evaluated an expression evaluates no other one,     *)
(* although it lives on and is still named until the next one is created:  *)
(* ecall_add_enc frees neither of its texts, and a second expression would *)
(* find a smaller heap, and the first one's bytes behind its own.          *)
(***************************************************************************)
FreshEnclave == stage[Server] \in {"enc", "add"} => created \notin spent

(***************************************************************************)
(* The status of ecall_add_enc is ignored, but an evaluation that failed   *)
(* because the enclave was lost or crashed is never answered: sgx_dec      *)
(* meets the same enclave and aborts.                                      *)
(***************************************************************************)
LostCallNotAnswered == failure = "lost" => stage[Server] = "dec"

(***************************************************************************)
(* The server gets what module Evaluation promises: the result of its own  *)
(* expression, or none; and only after a refused call, the status of which *)
(* nobody looks at, that of an earlier one of the same length.             *)
(***************************************************************************)
HasResult == stage[Server] \in {"dec", "java"} /\ failure = "none"

Promise == INSTANCE Evaluation WITH
  Expressions <- Exprs, Length <- Size,
  request <- job, computed <- onStack, ready <- HasResult, answer <- answer

ImplementsEvaluation == Promise!EvSpec
=============================================================================
