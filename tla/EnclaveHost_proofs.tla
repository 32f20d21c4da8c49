------------------------- MODULE EnclaveHost_proofs -------------------------
(***************************************************************************)
(* The safety properties of the enclave host, for any programs,            *)
(* expressions, lengths and number of enclaves.  Then the benchmark, the   *)
(* console program and showResult: they use the token file and the         *)
(* enclaves like the programs of module EnclaveHost, whose theorems        *)
(* therefore hold of them; and what they show can be explained, for any    *)
(* number of them.                                                         *)
(***************************************************************************)
EXTENDS EnclaveTools, TLAPS

(***************************************************************************)
(* The strengthening.  A program saves its own token, so that the file     *)
(* never holds anything else.  While the server prepares an evaluation its *)
(* latest enclave is unused.  The buffer of a failed call is garbage or    *)
(* the result of an expression of the same length, and a call that failed  *)
(* with a lost enclave leaves it lost.                                     *)
(***************************************************************************)
TokenInv ==
  \A p \in Programs :
    /\ token[p] \in {"zero"} \union Programs
    /\ stage[p] \in {"save", "write"} => token[p] = p

EnclaveInv ==
  stage[Server] \in {"save", "write", "enc", "add"} => created > 0 /\ created \notin spent

FailureInv == failure = "lost" => stage[Server] = "dec" /\ ~Alive

SameLength(b, x) == \E y \in onStack : b = {y} /\ Size[y] = Size[x]

BufferInv ==
  stage[Server] \in {"dec", "java"} =>
    \A x \in job :
      IF failure = "none" THEN buffer = {x} ELSE buffer = {} \/ SameLength(buffer, x)

(* The call that may fail has not been made.                               *)
PreparedInv == stage[Server] \in InitStages \union {"enc", "add"} => failure = "none"

EhInv == EhTypeOK /\ TokenInv /\ EnclaveInv /\ FailureInv /\ BufferInv /\ PreparedInv
----------------------------------------------------------------------------
LEMMA ServerIsProgram == Server \in Programs
BY DEF Programs

(* The names of the contents are told apart from programs.                 *)
LEMMA TokenNames ==
  ASSUME NEW p \in Programs
  PROVE  p \notin {"missing", "empty", "partial", "zero"}
BY NamesAssumption DEF Programs

(* Going to a stage moves one program and leaves the others where they are.*)
LEMMA GotoStage ==
  ASSUME EhTypeOK, NEW p \in Programs, NEW s, Goto(p, s),
         s \in Stages
  PROVE  /\ stage' \in [Programs -> Stages]
         /\ stage'[p] = s
         /\ \A q \in Programs \ {p} : stage'[q] = stage[q]
BY DEF EhTypeOK, Goto

LEMMA EhInitInv == EhInit => EhInv
<1> SUFFICES ASSUME EhInit PROVE EhInv
  OBVIOUS
<1> USE CapacityAssumption, ServerIsProgram
<1>1. EhTypeOK
  BY DEF EhInit, EhTypeOK, InitStages, EvalStages, Stages
<1>2. TokenInv /\ EnclaveInv
  BY DEF EhInit, TokenInv, EnclaveInv
<1>3. FailureInv /\ BufferInv /\ PreparedInv
  BY DEF EhInit, FailureInv, BufferInv, PreparedInv, InitStages
<1> QED
  BY <1>1, <1>2, <1>3 DEF EhInv

(***************************************************************************)
(* What ends a program keeps the invariant: the server's end takes its     *)
(* enclaves, buffers and answer along.                                     *)
(***************************************************************************)
LEMMA EndsInv ==
  ASSUME EhInv, NEW p \in Programs, Ends(p), UNCHANGED file
  PROVE  EhInv'
<1> USE CapacityAssumption, ServerIsProgram DEF EhInv
<1>1. /\ stage' \in [Programs -> Stages]
      /\ stage'[p] = "down"
      /\ \A q \in Programs \ {p} : stage'[q] = stage[q]
  BY GotoStage DEF Ends, Stages
<1>2. CASE p = Server
  <2>1. /\ job' = {} /\ created' = 0 /\ lost' = 0 /\ spent' = {}
        /\ buffer' = {} /\ onStack' = {} /\ failure' = "none" /\ answer' = {}
        /\ token' = token /\ hasFile' = hasFile
    BY <1>2 DEF Ends
  <2>2. EhTypeOK'
    BY <1>1, <1>2, <2>1 DEF EhTypeOK, EvalStages, Stages
  <2>3. TokenInv' /\ EnclaveInv'
    BY <1>1, <1>2, <2>1 DEF TokenInv, EnclaveInv
  <2>4. FailureInv' /\ BufferInv' /\ PreparedInv'
    BY <1>1, <1>2, <2>1 DEF FailureInv, BufferInv, PreparedInv, InitStages
  <2> QED
    BY <2>2, <2>3, <2>4
<1>3. CASE p # Server
  <2>1. UNCHANGED <<job, enclaveVars, resultVars, token, hasFile>> /\ stage'[Server] = stage[Server]
    BY <1>1, <1>3 DEF Ends
  <2>2. EhTypeOK'
    BY <1>1, <2>1 DEF EhTypeOK, enclaveVars, resultVars
  <2>3. TokenInv' /\ EnclaveInv'
    BY <1>1, <2>1 DEF TokenInv, EnclaveInv, enclaveVars
  <2>4. FailureInv' /\ BufferInv' /\ PreparedInv'
    BY <2>1 DEF FailureInv, BufferInv, SameLength, PreparedInv, InitStages, Alive,
                enclaveVars, resultVars
  <2> QED
    BY <2>2, <2>3, <2>4
<1> QED
  BY <1>2, <1>3

(***************************************************************************)
(* A step that only moves a program forward inside initialize_enclave, or  *)
(* out of it, touches the token file and its own token at most.            *)
(***************************************************************************)
LEMMA TokenStep ==
  ASSUME EhInv, NEW p \in Programs, NEW s, Goto(p, s),
         s \in InitStages \union {Initialized(p)},
         stage[p] \in InitStages,
         UNCHANGED <<job, enclaveVars, resultVars>>,
         file' \in {"missing", "empty", "partial"} \union Programs,
         hasFile' \in [Programs -> BOOLEAN],
         \/ token' = token
         \/ \E t \in {"zero"} \union Programs : token' = [token EXCEPT ![p] = t],
         s \in {"save", "write"} => token'[p] = p,
         s \in {"save", "write", "enc"} => stage[p] \in {"save", "write"}
  PROVE  EhInv'
<1> USE CapacityAssumption, ServerIsProgram DEF EhInv
<1>1. /\ stage' \in [Programs -> Stages]
      /\ stage'[p] = s
      /\ \A q \in Programs \ {p} : stage'[q] = stage[q]
  BY GotoStage DEF Initialized, EvalStages, Stages
<1>2. token' \in [Programs -> {"zero", "partial"} \union Programs]
  BY DEF EhTypeOK
<1>3. p = Server => job # {} /\ (s \in EvalStages => s = "enc")
  BY DEF EhTypeOK, Initialized, InitStages, EvalStages, Stages
<1>4. p = Server => s \notin {"down", "idle"}
  BY DEF Initialized, InitStages, Stages
<1>5. stage'[Server] \in {"down", "idle"} <=> stage[Server] \in {"down", "idle"}
  BY <1>1, <1>4 DEF InitStages, Stages
<1>6. EnclaveInv'
  BY <1>1 DEF EnclaveInv, enclaveVars, InitStages, Stages, Initialized
<1>7. EhTypeOK'
  <2>1. stage'[Server] \in EvalStages => created > 0
    BY <1>1, <1>3 DEF EhTypeOK, EnclaveInv
  <2> QED
    BY <1>1, <1>2, <1>5, <2>1 DEF EhTypeOK, enclaveVars, resultVars
<1>8. TokenInv'
  BY <1>1, <1>2 DEF TokenInv, EhTypeOK
<1>9. stage'[Server] = stage[Server] \/ stage[Server] \in InitStages
  BY <1>1
<1>10. failure = "none" \/ stage'[Server] = stage[Server]
  BY <1>9 DEF PreparedInv
<1>11. stage'[Server] \in {"dec", "java"} => stage[Server] = stage'[Server]
  BY <1>1, <1>3 DEF EvalStages, Stages
<1>12. FailureInv' /\ BufferInv'
  BY <1>10, <1>11 DEF FailureInv, BufferInv, SameLength, Alive, enclaveVars, resultVars
<1>13. PreparedInv'
  BY <1>10 DEF PreparedInv, InitStages, resultVars
<1> QED
  BY <1>6, <1>7, <1>8, <1>12, <1>13
----------------------------------------------------------------------------
(* Each action of the server and of initialize_enclave.                    *)
LEMMA StartInv ==
  ASSUME EhInv, NEW p \in Programs, Start(p)
  PROVE  EhInv'
<1> USE ServerIsProgram DEF EhInv
<1> DEFINE s == IF p = Server THEN "idle" ELSE "open"
<1>1. /\ stage' \in [Programs -> Stages]
      /\ stage'[p] = s
      /\ \A q \in Programs \ {p} : stage'[q] = stage[q]
      /\ stage[p] = "down"
  BY GotoStage DEF Start, InitStages, Stages
<1>2. UNCHANGED <<file, token, hasFile, job, created, lost, spent>>
  BY DEF Start, fileVars, enclaveVars
<1>3. UNCHANGED <<buffer, onStack, failure, answer>>
  BY DEF Start, resultVars
<1>4. p # Server => stage'[Server] = stage[Server]
  BY <1>1
<1>5. EhTypeOK'
  BY <1>1, <1>2, <1>3, <1>4 DEF EhTypeOK, EvalStages, Stages
<1>6. TokenInv' /\ EnclaveInv'
  BY <1>1, <1>2, <1>4 DEF TokenInv, EnclaveInv
<1>7. FailureInv' /\ BufferInv'
  BY <1>1, <1>2, <1>3, <1>4 DEF FailureInv, BufferInv, SameLength, Alive
<1>8. PreparedInv'
  BY <1>1, <1>3, <1>4 DEF PreparedInv, InitStages
<1> QED
  BY <1>5, <1>6, <1>7, <1>8

LEMMA EvaluateInv ==
  ASSUME EhInv, NEW x \in Exprs, Evaluate_ValueInput(x)
  PROVE  EhInv'
<1> USE ServerIsProgram DEF EhInv
<1>1. /\ stage' \in [Programs -> Stages]
      /\ stage'[Server] = "open"
      /\ \A q \in Programs \ {Server} : stage'[q] = stage[q]
  BY GotoStage DEF Evaluate_ValueInput, InitStages, Stages
<1>2. UNCHANGED <<file, token, hasFile, created, lost, spent, onStack>>
  BY DEF Evaluate_ValueInput, fileVars, enclaveVars
<1>3. job' = {x} /\ buffer' = {} /\ failure' = "none" /\ answer' = {}
  BY DEF Evaluate_ValueInput
<1>4. EhTypeOK'
  BY <1>1, <1>2, <1>3 DEF EhTypeOK, EvalStages, Stages
<1>5. TokenInv' /\ EnclaveInv'
  BY <1>1, <1>2 DEF TokenInv, EnclaveInv
<1>6. FailureInv' /\ BufferInv' /\ PreparedInv'
  BY <1>1, <1>3 DEF FailureInv, BufferInv, PreparedInv, InitStages
<1> QED
  BY <1>4, <1>5, <1>6

(* The new enclave has a number of its own, so nothing is spent on it.     *)
LEMMA CreateEnclaveInv ==
  ASSUME EhInv, NEW p \in Programs, CreateEnclave(p)
  PROVE  EhInv'
<1> USE CapacityAssumption, ServerIsProgram DEF EhInv
<1>1. PICK s \in {"save", Initialized(p)} :
        /\ Goto(p, s)
        /\ \/ token' = [token EXCEPT ![p] = p]
           \/ s # "save" /\ UNCHANGED token
  <2>1. Initialized(p) # "save"
    BY DEF Initialized
  <2>2. CASE /\ token' = [token EXCEPT ![p] = p]
             /\ Goto(p, IF hasFile[p] THEN "save" ELSE Initialized(p))
    BY <2>2, Zenon
  <2>3. CASE Goto(p, Initialized(p)) /\ UNCHANGED token
    BY <2>1, <2>3, Zenon
  <2> QED
    BY <2>2, <2>3 DEF CreateEnclave
<1>2. stage[p] = "create" /\ s \in {"save", "enc", "ready"}
  BY DEF CreateEnclave, Initialized
<1>3. UNCHANGED <<file, hasFile, job, lost, spent, buffer, onStack, failure, answer>>
  BY DEF CreateEnclave, resultVars
<1>4. /\ stage' \in [Programs -> Stages]
      /\ stage'[p] = s
      /\ \A q \in Programs \ {p} : stage'[q] = stage[q]
  BY <1>1, <1>2, GotoStage DEF InitStages, EvalStages, Stages
<1>5. /\ token' \in [Programs -> {"zero", "partial"} \union Programs]
      /\ TokenInv'
  BY <1>1, <1>2, <1>4 DEF EhTypeOK, TokenInv
<1>6. CASE p = Server
  <2>1. created < Capacity /\ created' = created + 1 /\ s \in {"save", "enc"}
    BY <1>6 DEF CreateEnclave, Initialized
  <2>2. EhTypeOK'
    BY <1>2, <1>3, <1>4, <1>5, <1>6, <2>1 DEF EhTypeOK, InitStages, EvalStages, Stages
  <2>3. EnclaveInv'
    BY <1>3, <1>4, <1>6, <2>1 DEF EnclaveInv, EhTypeOK
  <2>4. FailureInv' /\ BufferInv' /\ PreparedInv'
    BY <1>2, <1>3, <1>4, <1>6, <2>1 DEF FailureInv, BufferInv, PreparedInv, InitStages
  <2> QED
    BY <1>5, <2>2, <2>3, <2>4
<1>7. CASE p # Server
  <2>1. created' = created /\ stage'[Server] = stage[Server]
    BY <1>4, <1>7 DEF CreateEnclave
  <2>2. EhTypeOK' /\ EnclaveInv'
    BY <1>3, <1>4, <1>5, <2>1 DEF EhTypeOK, EnclaveInv
  <2>3. FailureInv' /\ BufferInv' /\ PreparedInv'
    BY <1>3, <2>1 DEF FailureInv, BufferInv, SameLength, PreparedInv, InitStages, Alive
  <2> QED
    BY <1>5, <2>2, <2>3
<1> QED
  BY <1>6, <1>7

(* The steps of initialize_enclave.                                        *)
LEMMA InitializeInv ==
  ASSUME EhInv, NEW p \in Programs, initialize_enclave(p)
  PROVE  EhInv'
<1>1. CASE OpenToken(p)
  <2>1. PICK found \in BOOLEAN :
          /\ hasFile' = [hasFile EXCEPT ![p] = found]
          /\ Goto(p, IF found THEN "read" ELSE "make")
    BY <1>1 DEF OpenToken
  <2>2. PICK s \in {"read", "make"} : Goto(p, s)
    BY <2>1, Zenon
  <2>3. \E t \in {"zero"} \union Programs : token' = [token EXCEPT ![p] = t]
    BY <1>1 DEF OpenToken
  <2>4. hasFile' \in [Programs -> BOOLEAN]
    BY <2>1 DEF EhInv, EhTypeOK
  <2>5. /\ stage[p] \in InitStages
        /\ UNCHANGED <<file, job, enclaveVars, resultVars>>
    BY <1>1 DEF OpenToken, InitStages, Stages
  <2> QED
    BY <2>2, <2>3, <2>4, <2>5, TokenStep DEF InitStages, Stages, EhInv, EhTypeOK
<1>2. CASE MakeTokenFile(p)
  BY <1>2, TokenStep DEF MakeTokenFile, InitStages, Stages, EhInv, EhTypeOK
<1>3. CASE ReadToken(p)
  BY <1>3, TokenStep DEF ReadToken, InitStages, Stages, EhInv, EhTypeOK
<1>4. CASE CreateEnclave(p)
  BY <1>4, CreateEnclaveInv
<1>5. CASE CreateFails(p)
  BY <1>5, EndsInv DEF CreateFails
<1>6. CASE ReopenToken(p)
  BY <1>6, TokenStep DEF ReopenToken, InitStages, Stages, Initialized, EhInv, EhTypeOK, TokenInv
<1>7. CASE WriteToken(p)
  <2>1. token[p] = p
    BY <1>7 DEF WriteToken, EhInv, TokenInv
  <2> QED
    BY <1>7, <2>1, TokenStep DEF WriteToken, InitStages, Stages, Initialized, EhInv, EhTypeOK
<1> QED
  BY <1>1, <1>2, <1>3, <1>4, <1>5, <1>6, <1>7 DEF initialize_enclave
(***************************************************************************)
(* The steps of the evaluation only move the server on.                    *)
(***************************************************************************)
LEMMA ServerStage ==
  ASSUME EhTypeOK, NEW s \in {"idle"} \union EvalStages, Goto(Server, s)
  PROVE  /\ stage' \in [Programs -> Stages]
         /\ stage'[Server] = s
         /\ \A q \in Programs \ {Server} : stage'[q] = stage[q]
BY GotoStage, ServerIsProgram DEF Stages

LEMMA TokenKept ==
  ASSUME EhInv, NEW s \in {"idle"} \union EvalStages, Goto(Server, s),
         UNCHANGED fileVars
  PROVE  TokenInv'
<1>1. \A q \in Programs : stage'[q] = stage[q] \/ stage'[q] \notin {"save", "write"}
  BY ServerStage DEF EhInv, EvalStages, Stages
<1> QED
  BY <1>1 DEF EhInv, TokenInv, fileVars

LEMMA EncInv ==
  ASSUME EhInv, sgx_enc
  PROVE  EhInv'
<1>1. CASE Ends(Server) /\ UNCHANGED file
  BY <1>1, EndsInv, ServerIsProgram
<1>2. CASE Goto(Server, "add") /\ UNCHANGED <<fileVars, job, enclaveVars, resultVars>>
  <2>1. TokenInv'
    BY <1>2, TokenKept DEF EvalStages, Stages
  <2>2. /\ stage' \in [Programs -> Stages]
        /\ stage'[Server] = "add" /\ stage[Server] = "enc"
    BY <1>2, ServerStage DEF EhInv, EvalStages, Stages, sgx_enc
  <2>3. EhTypeOK' /\ EnclaveInv'
    BY <1>2, <2>2 DEF EhInv, EhTypeOK, EnclaveInv, EvalStages, Stages, fileVars, enclaveVars, resultVars
  <2>4. FailureInv' /\ BufferInv' /\ PreparedInv'
    BY <1>2, <2>2 DEF EhInv, FailureInv, BufferInv, PreparedInv, InitStages, resultVars
  <2> QED
    BY <2>1, <2>3, <2>4 DEF EhInv
<1> QED
  BY <1>1, <1>2 DEF sgx_enc

LEMMA AddEncInv ==
  ASSUME EhInv, sgx_add_enc
  PROVE  EhInv'
<1>1. TokenInv'
  BY TokenKept DEF sgx_add_enc, EvalStages, Stages
<1>2. /\ stage' \in [Programs -> Stages]
      /\ stage'[Server] = "dec" /\ stage[Server] = "add"
  BY ServerStage DEF EhInv, EvalStages, Stages, sgx_add_enc
<1>3. /\ buffer' = job /\ onStack' = onStack \union job /\ spent' = spent \union {created}
      /\ UNCHANGED <<file, token, hasFile, job, created, lost, failure, answer>>
  BY DEF sgx_add_enc, fileVars
<1>4. EhTypeOK'
  <2>1. PICK x \in Exprs : job = {x}
    BY <1>2 DEF EhInv, EhTypeOK
  <2>2. created \in 1 .. created
    BY <1>2, CapacityAssumption DEF EhInv, EhTypeOK, EvalStages, Stages
  <2> QED
    BY <1>2, <1>3, <2>1, <2>2 DEF EhInv, EhTypeOK, EvalStages, Stages
<1>5. EnclaveInv'
  BY <1>2 DEF EnclaveInv
<1>6. FailureInv' /\ PreparedInv'
  BY <1>2, <1>3 DEF EhInv, FailureInv, PreparedInv, InitStages
<1>7. BufferInv'
  <2>1. PICK x \in Exprs : job = {x}
    BY <1>2 DEF EhInv, EhTypeOK
  <2>2. failure = "none"
    BY <1>2 DEF EhInv, PreparedInv
  <2>3. job' = {x} /\ buffer' = {x} /\ failure' = "none"
    BY <1>3, <2>1, <2>2
  <2> QED
    BY <2>3 DEF BufferInv
<1> QED
  BY <1>1, <1>4, <1>5, <1>6, <1>7 DEF EhInv

(***************************************************************************)
(* A failed call marks the enclave as lost when it is, and leaves at most  *)
(* one result, of the same length, in the buffer.                          *)
(***************************************************************************)
LEMMA AddEncFailsInv ==
  ASSUME EhInv, sgx_add_enc_fails
  PROVE  EhInv'
<1>1. TokenInv'
  BY TokenKept DEF sgx_add_enc_fails, EvalStages, Stages
<1>2. /\ stage' \in [Programs -> Stages]
      /\ stage'[Server] = "dec" /\ stage[Server] = "add"
  BY ServerStage DEF EhInv, EvalStages, Stages, sgx_add_enc_fails
<1>3. UNCHANGED <<file, token, hasFile, job, created, onStack, answer>>
  BY DEF sgx_add_enc_fails, fileVars
<1>4. /\ failure' \in {"refused", "lost"}
      /\ failure' = "lost" => lost' = created
      /\ lost' \in 0 .. created
      /\ spent' \subseteq 1 .. created
  <2>1. /\ created \in Nat /\ created \in 1 .. created
        /\ lost \in 0 .. created /\ spent \subseteq 1 .. created
    BY <1>2, CapacityAssumption DEF EhInv, EhTypeOK, EvalStages, Stages
  <2>2. CASE Alive /\ failure' = "refused" /\ UNCHANGED <<lost, spent>>
    BY <2>1, <2>2
  <2>3. CASE failure' = "lost" /\ lost' = created /\ spent' = spent \union {created}
    BY <2>1, <2>3
  <2>4. CASE ~Alive /\ failure' = "lost" /\ UNCHANGED <<lost, spent>>
    <3>1. lost = created
      BY <2>1, <2>4, CapacityAssumption DEF EhInv, EhTypeOK, Alive
    <3> QED
      BY <2>1, <2>4, <3>1
  <2> QED
    BY <2>2, <2>3, <2>4 DEF sgx_add_enc_fails
<1>5. PICK b \in SUBSET {x \in onStack : \A y \in job : Size[x] = Size[y]} :
        (\A x, y \in b : x = y) /\ buffer' = b
  BY DEF sgx_add_enc_fails
<1>6. EhTypeOK'
  BY <1>2, <1>3, <1>4, <1>5 DEF EhInv, EhTypeOK, EvalStages, Stages
<1>7. EnclaveInv'
  BY <1>2 DEF EnclaveInv
<1>8. FailureInv'
  BY <1>2, <1>3, <1>4, CapacityAssumption DEF EhInv, EhTypeOK, FailureInv, Alive
<1>9. PreparedInv'
  BY <1>2, <1>3 DEF EhInv, PreparedInv, InitStages
<1>10. BufferInv'
  <2> SUFFICES ASSUME NEW x \in job, buffer' # {}
               PROVE  SameLength(buffer, x)'
    BY <1>3, <1>4 DEF BufferInv
  <2>1. PICK y \in buffer' : TRUE
    OBVIOUS
  <2>2. x \in job
    BY <1>3
  <2>3. y \in b /\ y \in onStack /\ Size[y] = Size[x]
    BY <1>5, <2>1, <2>2
  <2>4. buffer' = {y}
    BY <1>5, <2>3
  <2> QED
    BY <1>3, <2>3, <2>4 DEF SameLength
<1> QED
  BY <1>1, <1>6, <1>7, <1>8, <1>9, <1>10 DEF EhInv

(* sgx_dec goes on only with a live enclave, hence after no lost call.     *)
LEMMA DecInv ==
  ASSUME EhInv, sgx_dec
  PROVE  EhInv'
<1>1. CASE Ends(Server) /\ UNCHANGED file
  BY <1>1, EndsInv, ServerIsProgram
<1>2. CASE Alive /\ Goto(Server, "java") /\ UNCHANGED <<fileVars, job, enclaveVars, resultVars>>
  <2>1. TokenInv'
    BY <1>2, TokenKept DEF EvalStages, Stages
  <2>2. /\ stage' \in [Programs -> Stages]
        /\ stage'[Server] = "java" /\ stage[Server] = "dec"
    BY <1>2, ServerStage DEF EhInv, EvalStages, Stages, sgx_dec
  <2>3. EhTypeOK' /\ EnclaveInv'
    BY <1>2, <2>2 DEF EhInv, EhTypeOK, EnclaveInv, EvalStages, Stages, fileVars, enclaveVars, resultVars
  <2>4. FailureInv' /\ PreparedInv'
    BY <1>2, <2>2 DEF EhInv, FailureInv, PreparedInv, InitStages, resultVars
  <2>5. BufferInv'
    BY <1>2, <2>2 DEF EhInv, BufferInv, SameLength, resultVars
  <2> QED
    BY <2>1, <2>3, <2>4, <2>5 DEF EhInv
<1> QED
  BY <1>1, <1>2 DEF sgx_dec

LEMMA DecryptInv ==
  ASSUME EhInv, decrypt
  PROVE  EhInv'
<1>1. CASE Ends(Server) /\ UNCHANGED file
  BY <1>1, EndsInv, ServerIsProgram
<1>2. CASE /\ buffer # {}
           /\ Goto(Server, "idle")
           /\ answer' = job \X buffer
           /\ job' = {}
           /\ UNCHANGED <<fileVars, enclaveVars, buffer, onStack, failure>>
  <2>1. TokenInv'
    BY <1>2, TokenKept
  <2>2. /\ stage' \in [Programs -> Stages]
        /\ stage'[Server] = "idle" /\ stage[Server] = "java"
    BY <1>2, ServerStage DEF EhInv, decrypt
  <2>3. EhTypeOK' /\ EnclaveInv'
    BY <1>2, <2>2 DEF EhInv, EhTypeOK, EnclaveInv, EvalStages, Stages, fileVars, enclaveVars
  <2>4. failure \in {"none", "refused"}
    BY <2>2 DEF EhInv, EhTypeOK, FailureInv
  <2>5. FailureInv' /\ BufferInv'
    BY <1>2, <2>2, <2>4 DEF FailureInv, BufferInv
  <2>6. PreparedInv'
    BY <2>2 DEF PreparedInv, InitStages
  <2> QED
    BY <2>1, <2>3, <2>5, <2>6 DEF EhInv
<1> QED
  BY <1>1, <1>2 DEF decrypt

LEMMA PowerTransitionInv ==
  ASSUME EhInv, PowerTransition
  PROVE  EhInv'
<1> USE CapacityAssumption DEF EhInv
<1>1. /\ lost' = created
      /\ UNCHANGED <<file, token, hasFile, stage, job, created, spent>>
      /\ UNCHANGED <<buffer, onStack, failure, answer>>
  BY DEF PowerTransition, fileVars, resultVars
<1>2. EhTypeOK' /\ TokenInv' /\ EnclaveInv'
  BY <1>1 DEF EhTypeOK, TokenInv, EnclaveInv
<1>3. FailureInv'
  BY <1>1 DEF FailureInv, EhTypeOK, Alive
<1>4. BufferInv' /\ PreparedInv'
  BY <1>1 DEF BufferInv, SameLength, PreparedInv, InitStages
<1> QED
  BY <1>2, <1>3, <1>4
----------------------------------------------------------------------------
LEMMA EhNextInv == EhInv /\ [EhNext]_ehVars => EhInv'
<1> SUFFICES ASSUME EhInv, [EhNext]_ehVars PROVE EhInv'
  OBVIOUS
<1>1. ASSUME NEW p \in Programs, Start(p) PROVE EhInv'
  BY <1>1, StartInv
<1>2. ASSUME NEW p \in Programs, initialize_enclave(p) PROVE EhInv'
  BY <1>2, InitializeInv
<1>3. ASSUME NEW p \in Programs, Killed(p) PROVE EhInv'
  BY <1>3, EndsInv DEF Killed
<1>8. ASSUME NEW p \in Programs, Exit(p) PROVE EhInv'
  BY <1>8, EndsInv DEF Exit
<1>4. ASSUME NEW x \in Exprs, Evaluate_ValueInput(x) PROVE EhInv'
  BY <1>4, EvaluateInv
<1>5. sgx_enc \/ sgx_add_enc \/ sgx_add_enc_fails => EhInv'
  BY EncInv, AddEncInv, AddEncFailsInv
<1>6. sgx_dec \/ decrypt \/ PowerTransition => EhInv'
  BY DecInv, DecryptInv, PowerTransitionInv
<1>7. CASE UNCHANGED ehVars
  BY <1>7 DEF EhInv, EhTypeOK, TokenInv, EnclaveInv, FailureInv, BufferInv, SameLength,
              PreparedInv, InitStages, Alive, ehVars, fileVars, enclaveVars, resultVars
<1> QED
  BY <1>1, <1>2, <1>3, <1>4, <1>5, <1>6, <1>7, <1>8 DEF EhNext

(* The strengthened invariant holds in every state of sample.cpp's host.   *)
THEOREM EhInvariance == EhSpec => []EhInv
BY EhInitInv, EhNextInv, PTL DEF EhSpec

(* Every variable keeps its type.                                          *)
THEOREM EhTypeCorrect == EhSpec => []EhTypeOK
<1>1. EhInv => EhTypeOK
  BY DEF EhInv
<1> QED
  BY <1>1, EhInvariance, PTL

(* No program ever hands a piece of a token to sgx_create_enclave, however *)
(* many programs share the file.                                           *)
THEOREM EhTokenWhole == EhSpec => []TokenWhole
<1>1. EhInv => TokenWhole
  BY DEF EhInv, TokenInv, TokenWhole
<1> QED
  BY <1>1, EhInvariance, PTL

(* No enclave evaluates a second expression.                               *)
THEOREM EhFreshEnclave == EhSpec => []FreshEnclave
<1>1. EhInv => FreshEnclave
  BY DEF EhInv, EnclaveInv, FreshEnclave
<1> QED
  BY <1>1, EhInvariance, PTL

(* An evaluation whose enclave was lost in ecall_add_enc is not answered,  *)
(* although the status of that call is ignored.                            *)
THEOREM EhLostCallNotAnswered == EhSpec => []LostCallNotAnswered
<1>1. EhInv => LostCallNotAnswered
  BY DEF EhInv, FailureInv, LostCallNotAnswered
<1> QED
  BY <1>1, EhInvariance, PTL

----------------------------------------------------------------------------
(***************************************************************************)
(* The evaluation promised.  sgx_add_enc is where the result is computed;  *)
(* a failed call computes nothing, and whatever ends the server is the     *)
(* promised crash.  All the rest stutters.                                 *)
(***************************************************************************)
promised == <<job, onStack, HasResult, answer>>

LEMMA PromiseInit == EhInit => Promise!EvInit
<1> SUFFICES ASSUME EhInit PROVE Promise!EvInit
  OBVIOUS
<1>1. stage[Server] = "down"
  BY ServerIsProgram DEF EhInit
<1> QED
  BY <1>1 DEF EhInit, Promise!EvInit, HasResult

LEMMA EndsPromised ==
  ASSUME EhInv, NEW p \in Programs, Ends(p)
  PROVE  [Promise!EvNext]_promised
<1>1. stage'[p] = "down" /\ \A q \in Programs \ {p} : stage'[q] = stage[q]
  BY GotoStage DEF EhInv, Ends, Stages
<1>2. CASE p = Server
  BY <1>1, <1>2 DEF Ends, HasResult, Promise!EvNext, Promise!Crash
<1>3. CASE p # Server
  BY <1>1, <1>3, ServerIsProgram DEF Ends, HasResult, promised, resultVars
<1> QED
  BY <1>2, <1>3

(* Steps of other programs, and of initialize_enclave, promise nothing.    *)
LEMMA UnpromisedStep ==
  ASSUME UNCHANGED <<job, onStack, answer, failure>>,
         stage'[Server] = stage[Server] \/ {stage[Server], stage'[Server]} \intersect {"dec", "java"} = {}
  PROVE  UNCHANGED promised
BY DEF promised, HasResult

LEMMA InitializePromised ==
  ASSUME EhInv, NEW p \in Programs, initialize_enclave(p)
  PROVE  [Promise!EvNext]_promised
<1>1. CASE CreateFails(p)
  BY <1>1, EndsPromised DEF CreateFails
<1>2. CASE ~CreateFails(p)
  <2>1. PICK s \in InitStages \union {"enc", "ready"} :
          Goto(p, s) /\ stage[p] \in InitStages /\ UNCHANGED <<job, resultVars>>
    <3>1. CASE OpenToken(p)
      <4>1. PICK found \in BOOLEAN : Goto(p, IF found THEN "read" ELSE "make")
        BY <3>1 DEF OpenToken
      <4> QED
        BY <3>1, <4>1 DEF OpenToken, InitStages
    <3>2. CASE CreateEnclave(p)
      <4>1. \/ Goto(p, IF hasFile[p] THEN "save" ELSE Initialized(p))
            \/ Goto(p, Initialized(p))
        BY <3>2 DEF CreateEnclave
      <4>2. PICK s \in {"save", Initialized(p)} : Goto(p, s)
        BY <4>1
      <4> QED
        BY <3>2, <4>2 DEF CreateEnclave, Initialized, InitStages
    <3>3. CASE MakeTokenFile(p) \/ ReadToken(p) \/ ReopenToken(p) \/ WriteToken(p)
      BY <3>3 DEF MakeTokenFile, ReadToken, ReopenToken, WriteToken, Initialized, InitStages
    <3> QED
      BY <1>2, <3>1, <3>2, <3>3 DEF initialize_enclave
  <2>2. stage'[p] = s /\ \A q \in Programs \ {p} : stage'[q] = stage[q]
    BY <2>1, GotoStage DEF EhInv, InitStages, EvalStages, Stages
  <2> QED
    BY <2>1, <2>2, ServerIsProgram, UnpromisedStep DEF InitStages, resultVars
<1> QED
  BY <1>1, <1>2

(* A request, and its evaluation.                                          *)
LEMMA RequestPromised ==
  ASSUME EhInv, NEW x \in Exprs, Evaluate_ValueInput(x)
  PROVE  [Promise!EvNext]_promised
<1>1. stage[Server] = "idle" /\ stage'[Server] = "open"
  BY GotoStage, ServerIsProgram DEF EhInv, Evaluate_ValueInput, InitStages, Stages
<1>2. ~HasResult /\ ~HasResult' /\ job = {}
  BY <1>1 DEF HasResult, EhInv, EhTypeOK
<1>3. Promise!Request(x)
  BY <1>2 DEF Evaluate_ValueInput, Promise!Request, HasResult
<1> QED
  BY <1>3 DEF Promise!EvNext

LEMMA ComputePromised ==
  ASSUME EhInv, sgx_add_enc
  PROVE  [Promise!EvNext]_promised
<1>1. stage[Server] = "add" /\ stage'[Server] = "dec" /\ UNCHANGED <<job, failure, answer>>
  BY ServerStage DEF EhInv, sgx_add_enc, EvalStages
<1>2. failure = "none" /\ job # {}
  BY <1>1 DEF EhInv, PreparedInv, EhTypeOK
<1>3. HasResult' /\ ~HasResult
  BY <1>1, <1>2 DEF HasResult
<1>4. Promise!Compute
  BY <1>1, <1>2, <1>3 DEF sgx_add_enc, Promise!Compute
<1> QED
  BY <1>4 DEF Promise!EvNext

LEMMA FailurePromised ==
  ASSUME EhInv, sgx_add_enc_fails
  PROVE  UNCHANGED promised
<1>1. stage[Server] = "add" /\ UNCHANGED <<job, onStack, answer>>
  BY DEF sgx_add_enc_fails
<1>2. failure' # "none"
  BY DEF sgx_add_enc_fails
<1> QED
  BY <1>1, <1>2 DEF promised, HasResult

(* The answer is the result computed, or after a refused call what lay in  *)
(* the buffer.                                                             *)
LEMMA AnswerPromised ==
  ASSUME EhInv, decrypt
  PROVE  [Promise!EvNext]_promised
<1>1. CASE Ends(Server)
  BY <1>1, EndsPromised, ServerIsProgram
<1>2. CASE /\ buffer # {} /\ Goto(Server, "idle")
           /\ answer' = job \X buffer /\ job' = {} /\ UNCHANGED <<onStack, failure>>
  <2>1. stage[Server] = "java" /\ stage'[Server] = "idle"
    BY <1>2, ServerStage DEF EhInv, decrypt
  <2>2. ~HasResult' /\ (HasResult <=> failure = "none")
    BY <2>1 DEF HasResult
  <2>3. PICK x : job = {x}
    BY <2>1 DEF EhInv, EhTypeOK
  <2>4. PICK y : buffer = {y} /\ IF HasResult THEN y = x ELSE y \in onStack /\ Size[y] = Size[x]
    BY <1>2, <2>1, <2>2, <2>3 DEF EhInv, BufferInv, SameLength
  <2>5. y \in Promise!Answers
    BY <2>3, <2>4 DEF Promise!Answers
  <2>6. Promise!Answer
    BY <1>2, <2>2, <2>3, <2>4, <2>5 DEF Promise!Answer
  <2> QED
    BY <2>6 DEF Promise!EvNext
<1> QED
  BY <1>1, <1>2 DEF decrypt

LEMMA StepPromised == EhInv /\ [EhNext]_ehVars => [Promise!EvNext]_promised
<1> SUFFICES ASSUME EhInv, [EhNext]_ehVars PROVE [Promise!EvNext]_promised
  OBVIOUS
<1>1. ASSUME NEW p \in Programs, Start(p) PROVE UNCHANGED promised
  <2>1. /\ stage[p] = "down" /\ stage'[p] \in {"idle", "open"}
        /\ \A q \in Programs \ {p} : stage'[q] = stage[q]
    BY <1>1, GotoStage DEF EhInv, Start, InitStages, Stages
  <2> QED
    BY <1>1, <2>1, ServerIsProgram, UnpromisedStep DEF Start, resultVars
<1>2. ASSUME NEW p \in Programs, Exit(p) \/ Killed(p) PROVE [Promise!EvNext]_promised
  BY <1>2, EndsPromised DEF Exit, Killed
<1>3. CASE sgx_enc
  <2>1. CASE Ends(Server)
    BY <2>1, EndsPromised, ServerIsProgram
  <2>2. CASE Goto(Server, "add") /\ UNCHANGED <<job, resultVars>>
    <3>1. stage[Server] = "enc" /\ stage'[Server] = "add"
      BY <1>3, <2>2, ServerStage DEF EhInv, sgx_enc, EvalStages
    <3> QED
      BY <2>2, <3>1, UnpromisedStep DEF resultVars
  <2> QED
    BY <1>3, <2>1, <2>2 DEF sgx_enc
<1>4. CASE sgx_dec
  <2>1. CASE Ends(Server)
    BY <2>1, EndsPromised, ServerIsProgram
  <2>2. CASE Goto(Server, "java") /\ UNCHANGED <<job, resultVars>>
    <3>1. stage[Server] = "dec" /\ stage'[Server] = "java"
      BY <1>4, <2>2, ServerStage DEF EhInv, sgx_dec, EvalStages
    <3> QED
      BY <2>2, <3>1 DEF promised, HasResult, resultVars
  <2> QED
    BY <1>4, <2>1, <2>2 DEF sgx_dec
<1>5. CASE PowerTransition
  BY <1>5 DEF PowerTransition, promised, HasResult, resultVars
<1>6. CASE UNCHANGED ehVars
  BY <1>6 DEF ehVars, promised, HasResult, resultVars
<1> QED
  BY <1>1, <1>2, <1>3, <1>4, <1>5, <1>6, InitializePromised, RequestPromised,
     ComputePromised, FailurePromised, AnswerPromised DEF EhNext

(***************************************************************************)
(* The server gets from Evaluate_ValueInput what module Evaluation         *)
(* promises, although nobody looks at the status of ecall_add_enc: for any *)
(* expressions, lengths, enclaves and programs.                            *)
(***************************************************************************)
THEOREM EhImplementsEvaluation == EhSpec => ImplementsEvaluation
<1>1. EhInv /\ [EhNext]_ehVars => [Promise!EvNext]_(Promise!evVars)
  BY StepPromised DEF promised, Promise!evVars
<1> QED
  BY <1>1, PromiseInit, EhInvariance, PTL DEF EhSpec, ImplementsEvaluation, Promise!EvSpec

----------------------------------------------------------------------------
Steps == {"none", "read", "describe", "encrypt1", "encrypt2", "add", "decrypt",
          "java", "evaluate", "destroy"}

Shows == {"nothing", "right", "wrong", "blank", "success"}

ToolTypeOK ==
  /\ kind \in [Others -> Kinds] /\ step \in [Others -> Steps]
  /\ live \in [Others -> BOOLEAN] /\ desc \in [Others -> Descriptions]
  /\ ctxt1 \in [Others -> Buffer] /\ res \in [Others -> Buffer]
  /\ failed \in [Others -> BOOLEAN] /\ printed \in [Others -> Shows]

(***************************************************************************)
(* The strengthening says how far a program has come: before its enclave   *)
(* it has nothing; which steps belong to which program; what the two       *)
(* buffers may hold when they are used.                                    *)
(***************************************************************************)
Blank(p) == ~failed[p] /\ res[p] = "bad" /\ printed[p] = "nothing"

PlaceInv(p) ==
  /\ stage[p] # "ready" => step[p] = "none"
  /\ step[p] \in {"none", "read", "evaluate"} => Blank(p)
  /\ step[p] \in {"describe", "encrypt1", "encrypt2", "add"} =>
       res[p] = "bad" /\ printed[p] = "nothing"
  /\ step[p] = "decrypt" => printed[p] = "nothing"
  /\ step[p] = "evaluate" => kind[p] = "showResult"
  /\ step[p] \in {"read", "describe", "java"} => kind[p] = "Evaluate_Value"
  /\ step[p] \in {"encrypt1", "encrypt2", "add", "decrypt"} => kind[p] # "showResult"

ContentInv(p) ==
  /\ step[p] \in {"describe", "encrypt2", "add"} =>
       ctxt1[p] = "good" \/ (kind[p] = "main" /\ failed[p])
  /\ step[p] = "decrypt" =>
       /\ res[p] = "bad" => failed[p]
       /\ res[p] = "sealed" =>
            \/ kind[p] = "main" /\ failed[p]
            \/ kind[p] = "Evaluate_Value" /\ desc[p] = "long"

Explained(p) ==
  /\ printed[p] = "wrong" =>
       \/ kind[p] = "main" /\ failed[p]
       \/ kind[p] = "Evaluate_Value" /\ desc[p] = "long"
  /\ printed[p] = "blank" => failed[p]
  /\ printed[p] = "success" => ~failed[p]

ToolInv(p) == PlaceInv(p) /\ ContentInv(p) /\ Explained(p)

EtInv == ToolTypeOK /\ \A p \in Others : ToolInv(p)
----------------------------------------------------------------------------
(* Every step of the tools is one of module EnclaveHost, or none of it.    *)
LEMMA OtherIsProgram ==
  ASSUME NEW p \in Others
  PROVE  p \in Programs /\ p # Server
BY NamesAssumption DEF Programs

LEMMA StepRefines == [EtNext]_etVars => [EhNext]_ehVars
<1> SUFFICES ASSUME [EtNext]_etVars PROVE [EhNext]_ehVars
  OBVIOUS
<1>1. CASE UNCHANGED etVars
  BY <1>1 DEF etVars
<1>2. CASE ServerStep
  <2>1. CASE Start(Server) \/ initialize_enclave(Server) \/ Killed(Server)
    BY <2>1, ServerIsProgram DEF EhNext
  <2>2. CASE \E x \in Exprs : Evaluate_ValueInput(x)
    BY <2>2 DEF EhNext
  <2>3. CASE \/ sgx_enc \/ sgx_add_enc \/ sgx_add_enc_fails \/ sgx_dec \/ decrypt
             \/ PowerTransition
    BY <2>3 DEF EhNext
  <2> QED
    BY <1>2, <2>1, <2>2, <2>3 DEF ServerStep
<1>3. ASSUME NEW p \in Others, ToolStep(p) PROVE [EhNext]_ehVars
  <2>1. CASE Start(p) \/ initialize_enclave(p) \/ Killed(p) \/ Exit(p)
    BY <2>1, OtherIsProgram DEF EhNext
  <2>2. CASE ToolStart(p) \/ ToolInitialize(p) \/ ToolKilled(p)
    BY <2>1, <2>2 DEF ToolStart, ToolInitialize, ToolKilled
  <2>3. CASE EnclaveGone(p) \/ ReadExpression(p) \/ EncryptExpression(p)
    BY <2>1, <2>3 DEF EnclaveGone, ReadExpression, EncryptExpression
  <2>4. CASE ReadDescription(p) \/ EncryptDescription(p) \/ AddEncrypted(p)
    BY <2>1, <2>4 DEF ReadDescription, EncryptDescription, AddEncrypted
  <2>5. CASE Decrypt(p) \/ JavaDecrypt(p) \/ EvaluatePlain(p) \/ DESTROY_ENCLAVE(p)
    BY <2>1, <2>5 DEF Decrypt, JavaDecrypt, EvaluatePlain, DESTROY_ENCLAVE
  <2> QED
    BY <1>3, <2>2, <2>3, <2>4, <2>5 DEF ToolStep
<1> QED
  BY <1>1, <1>2, <1>3 DEF EtNext

(***************************************************************************)
(* The programs of module EnclaveTools implement those of EnclaveHost.     *)
(***************************************************************************)
THEOREM ToolsAreHosts == EtSpec => EhSpec
<1>1. EtInit => EhInit
  BY DEF EtInit
<1> QED
  BY <1>1, StepRefines, PTL DEF EtSpec, EhSpec
----------------------------------------------------------------------------
(* What one program does leaves the others as they are.                    *)
Untouched(q) ==
  /\ stage'[q] = stage[q] /\ kind'[q] = kind[q] /\ step'[q] = step[q]
  /\ desc'[q] = desc[q] /\ ctxt1'[q] = ctxt1[q] /\ res'[q] = res[q]
  /\ failed'[q] = failed[q] /\ printed'[q] = printed[q]

LEMMA UntouchedInv ==
  ASSUME NEW q \in Others, ToolInv(q), Untouched(q)
  PROVE  ToolInv(q)'
BY DEF ToolInv, PlaceInv, ContentInv, Explained, Blank, Untouched

LEMMA StageMoves ==
  ASSUME EhTypeOK, NEW p \in Programs, NEW s \in Stages, Goto(p, s)
  PROVE  stage'[p] = s /\ \A q \in Programs \ {p} : stage'[q] = stage[q]
BY GotoStage

(* A step of p keeps the invariant when it keeps p's part of it.           *)
LEMMA OneMoves ==
  ASSUME EtInv, NEW p \in Others, ToolTypeOK', ToolInv(p)',
         \A q \in Others \ {p} : Untouched(q)
  PROVE  EtInv'
<1>1. ASSUME NEW q \in Others \ {p} PROVE ToolInv(q)'
  BY <1>1, UntouchedInv DEF EtInv
<1> QED
  BY <1>1 DEF EtInv

(* The server does not touch the state of the tools.                       *)
LEMMA InitializeStages ==
  ASSUME EhTypeOK, NEW p \in Programs, initialize_enclave(p)
  PROVE  /\ stage[p] # "ready"
         /\ \A q \in Programs \ {p} : stage'[q] = stage[q]
<1>1. PICK s \in Stages : Goto(p, s)
  <2>1. /\ {"read", "make", "create", "save", "write", "down"} \subseteq Stages
        /\ Initialized(p) \in Stages
    BY DEF Stages, InitStages, EvalStages, Initialized
  <2>2. CASE OpenToken(p)
    BY <2>1, <2>2 DEF OpenToken
  <2>3. CASE MakeTokenFile(p) \/ ReadToken(p)
    BY <2>1, <2>3 DEF MakeTokenFile, ReadToken
  <2>4. CASE CreateEnclave(p)
    BY <2>1, <2>4 DEF CreateEnclave
  <2>5. CASE CreateFails(p)
    BY <2>1, <2>5 DEF CreateFails, Ends
  <2>6. CASE ReopenToken(p) \/ WriteToken(p)
    BY <2>1, <2>6 DEF ReopenToken, WriteToken
  <2> QED
    BY <2>2, <2>3, <2>4, <2>5, <2>6 DEF initialize_enclave
<1>2. stage[p] # "ready"
  BY DEF initialize_enclave, OpenToken, MakeTokenFile, ReadToken, CreateEnclave,
         CreateFails, ReopenToken, WriteToken
<1> QED
  BY <1>1, <1>2, StageMoves

LEMMA ServerStepStages ==
  ASSUME EhTypeOK, ServerStep
  PROVE  \A q \in Others : stage'[q] = stage[q]
<1> USE ServerIsProgram
<1>1. CASE stage' = stage
  BY <1>1
<1>2. CASE initialize_enclave(Server)
  BY <1>2, InitializeStages, OtherIsProgram
<1>3. CASE \E s \in Stages : Goto(Server, s)
  BY <1>3, StageMoves, OtherIsProgram
<1>4. {"down", "idle", "open", "add", "dec", "java"} \subseteq Stages
  BY DEF Stages, InitStages, EvalStages
<1>5. CASE Start(Server) \/ Killed(Server) \/ \E x \in Exprs : Evaluate_ValueInput(x)
  BY <1>3, <1>4, <1>5 DEF Start, Killed, Ends, Evaluate_ValueInput
<1>6. CASE sgx_enc \/ sgx_dec \/ decrypt
  BY <1>3, <1>4, <1>6 DEF sgx_enc, sgx_dec, decrypt, Ends
<1>7. CASE sgx_add_enc \/ sgx_add_enc_fails
  BY <1>3, <1>4, <1>7 DEF sgx_add_enc, sgx_add_enc_fails
<1>8. CASE PowerTransition
  BY <1>1, <1>8 DEF PowerTransition
<1> QED
  BY <1>2, <1>5, <1>6, <1>7, <1>8 DEF ServerStep
----------------------------------------------------------------------------
LEMMA EtInitInv == EtInit => EtInv
<1> SUFFICES ASSUME EtInit PROVE EtInv
  OBVIOUS
<1>1. ToolTypeOK
  BY DEF EtInit, ToolTypeOK, Kinds, Steps, Descriptions, Buffer, Shows
<1>2. ASSUME NEW p \in Others PROVE ToolInv(p)
  BY <1>2 DEF EtInit, ToolInv, PlaceInv, ContentInv, Explained, Blank
<1> QED
  BY <1>1, <1>2 DEF EtInv

(* The end of a program leaves nothing of it.                              *)
LEMMA GoneInv ==
  ASSUME EhTypeOK, EtInv, NEW p \in Others, Gone(p), Goto(p, "down")
  PROVE  EtInv'
<1>1. stage'[p] = "down" /\ \A q \in Others \ {p} : stage'[q] = stage[q]
  BY StageMoves, OtherIsProgram DEF Stages
<1>2. ToolTypeOK'
  BY DEF Gone, Set, EtInv, ToolTypeOK, Kinds, Steps, Descriptions, Buffer, Shows
<1>3. /\ step'[p] = "none" /\ res'[p] = "bad"
      /\ failed'[p] = FALSE /\ printed'[p] = "nothing"
  BY DEF Gone, Set, EtInv, ToolTypeOK
<1>4. ToolInv(p)'
  BY <1>1, <1>3 DEF ToolInv, PlaceInv, ContentInv, Explained, Blank
<1>5. \A q \in Others \ {p} : Untouched(q)
  BY <1>1 DEF Gone, Set, EtInv, ToolTypeOK, Untouched
<1> QED
  BY <1>2, <1>4, <1>5, OneMoves

LEMMA ExitInv ==
  ASSUME EhTypeOK, EtInv, NEW p \in Others, Exit(p) \/ Killed(p), Gone(p)
  PROVE  EtInv'
BY GoneInv DEF Exit, Killed, Ends
----------------------------------------------------------------------------
(* initialize_enclave leaves a program at its first step, with nothing in  *)
(* hand, or where it was.                                                  *)
LEMMA ToolInitializeInv ==
  ASSUME EhTypeOK, EtInv, NEW p \in Others, ToolInitialize(p)
  PROVE  EtInv'
<1>1. /\ step[p] = "none"
      /\ \A q \in Others \ {p} : stage'[q] = stage[q]
  BY InitializeStages, OtherIsProgram DEF ToolInitialize, EtInv, ToolInv, PlaceInv
<1>2. UNCHANGED <<desc, ctxt1, res, failed, printed>> /\ Blank(p)
  BY <1>1 DEF ToolInitialize, EtInv, ToolInv, PlaceInv
<1>3. CASE stage'[p] = "ready"
  <2>1. PICK k \in Kinds : /\ kind' = [kind EXCEPT ![p] = k]
                           /\ step' = [step EXCEPT ![p] = FirstStep(k)]
                           /\ live' = [live EXCEPT ![p] = TRUE]
    BY <1>3 DEF ToolInitialize, Set
  <2>2. FirstStep(k) = (CASE k = "main" -> "encrypt1" [] k = "Evaluate_Value" -> "read"
                          [] k = "showResult" -> "evaluate")
    BY DEF FirstStep
  <2>3. FirstStep(k) \in Steps
    BY <2>2 DEF Steps, Kinds
  <2>4. ToolTypeOK'
    BY <1>2, <2>1, <2>3 DEF EtInv, ToolTypeOK
  <2>5. kind'[p] = k /\ step'[p] = FirstStep(k)
    BY <2>1 DEF EtInv, ToolTypeOK
  <2>6. ToolInv(p)'
    BY <1>2, <1>3, <2>2, <2>5
       DEF EtInv, ToolInv, PlaceInv, ContentInv, Explained, Blank, Kinds
  <2>7. \A q \in Others \ {p} : Untouched(q)
    BY <1>1, <1>2, <2>1 DEF EtInv, ToolTypeOK, Untouched
  <2> QED
    BY <2>4, <2>6, <2>7, OneMoves
<1>4. CASE stage'[p] # "ready"
  <2>1. UNCHANGED <<kind, step, live>>
    BY <1>4 DEF ToolInitialize
  <2>2. ToolTypeOK'
    BY <1>2, <2>1 DEF EtInv, ToolTypeOK
  <2>3. ToolInv(p)'
    BY <1>1, <1>2, <2>1 DEF EtInv, ToolInv, PlaceInv, ContentInv, Explained, Blank
  <2>4. \A q \in Others \ {p} : Untouched(q)
    BY <1>1, <1>2, <2>1 DEF Untouched
  <2> QED
    BY <2>2, <2>3, <2>4, OneMoves
<1> QED
  BY <1>3, <1>4

(* A start, and the loss of an enclave, change nothing that matters.       *)
LEMMA StartGoneInv ==
  ASSUME EhTypeOK, EtInv, NEW p \in Others, ToolStart(p) \/ EnclaveGone(p)
  PROVE  EtInv'
<1>1. CASE ToolStart(p)
  <2>1. UNCHANGED toolState /\ stage[p] = "down" /\ Goto(p, "open")
    BY <1>1, OtherIsProgram DEF ToolStart, Start
  <2>2. stage'[p] = "open" /\ \A q \in Others \ {p} : stage'[q] = stage[q]
    BY <2>1, StageMoves, OtherIsProgram DEF Stages, InitStages
  <2>3. ToolTypeOK'
    BY <2>1 DEF EtInv, ToolTypeOK, toolState
  <2>4. ToolInv(p)'
    BY <2>1, <2>2 DEF EtInv, ToolInv, PlaceInv, ContentInv, Explained, Blank, toolState
  <2>5. \A q \in Others \ {p} : Untouched(q)
    BY <2>1, <2>2 DEF Untouched, toolState
  <2> QED
    BY <2>3, <2>4, <2>5, OneMoves
<1>2. CASE EnclaveGone(p)
  <2>1. /\ UNCHANGED <<ehVars, kind, step, desc, ctxt1, res, failed, printed>>
        /\ live' = [live EXCEPT ![p] = FALSE]
    BY <1>2 DEF EnclaveGone, Set
  <2>2. ToolTypeOK'
    BY <2>1 DEF EtInv, ToolTypeOK
  <2>3. \A q \in Others : Untouched(q)
    BY <2>1 DEF Untouched, ehVars
  <2> QED
    BY <2>2, <2>3, UntouchedInv DEF EtInv
<1> QED
  BY <1>1, <1>2

(***************************************************************************)
(* The steps between initialize_enclave and the end.  Each changes the     *)
(* program's place and at most one buffer, its failure and its output.     *)
(***************************************************************************)
LEMMA ReadInv ==
  ASSUME EhTypeOK, EtInv, NEW p \in Others, ReadExpression(p) \/ ReadDescription(p)
  PROVE  EtInv'
<1>1. CASE Exit(p) /\ Gone(p)
  BY <1>1, ExitInv
<1>2. CASE /\ At(p, "read") /\ Set(step, p, "encrypt1")
           /\ UNCHANGED <<ehVars, kind, live, desc, ctxt1, res, failed, printed>>
  <2>1. ToolTypeOK'
    BY <1>2 DEF Set, EtInv, ToolTypeOK, Steps
  <2>2. step[p] = "read" /\ step'[p] = "encrypt1" /\ UNCHANGED stage
    BY <1>2 DEF Set, At, EtInv, ToolTypeOK, ehVars
  <2>3. ToolInv(p)'
    BY <1>2, <2>2 DEF At, EtInv, ToolInv, PlaceInv, ContentInv, Explained, Blank
  <2>4. \A q \in Others \ {p} : Untouched(q)
    BY <1>2, <2>2 DEF Set, EtInv, ToolTypeOK, Untouched
  <2> QED
    BY <2>1, <2>3, <2>4, OneMoves
<1>3. CASE /\ At(p, "describe") /\ Set(step, p, "encrypt2")
           /\ \E d \in Descriptions : Set(desc, p, d)
           /\ UNCHANGED <<ehVars, kind, live, ctxt1, res, failed, printed>>
  <2>1. PICK d \in Descriptions : desc' = [desc EXCEPT ![p] = d]
    BY <1>3 DEF Set
  <2>2. ToolTypeOK'
    BY <1>3, <2>1 DEF Set, EtInv, ToolTypeOK, Steps
  <2>3. step[p] = "describe" /\ step'[p] = "encrypt2" /\ UNCHANGED stage
    BY <1>3 DEF Set, At, EtInv, ToolTypeOK, ehVars
  <2>4. ToolInv(p)'
    BY <1>3, <2>3 DEF At, EtInv, ToolInv, PlaceInv, ContentInv, Explained, Blank
  <2>5. \A q \in Others \ {p} : Untouched(q)
    BY <1>3, <2>1, <2>3 DEF Set, EtInv, ToolTypeOK, Untouched
  <2> QED
    BY <2>2, <2>4, <2>5, OneMoves
<1> QED
  BY <1>1, <1>2, <1>3 DEF ReadExpression, ReadDescription

LEMMA EncryptInv ==
  ASSUME EhTypeOK, EtInv, NEW p \in Others, EncryptExpression(p) \/ EncryptDescription(p)
  PROVE  EtInv'
<1>1. CASE Exit(p) /\ Gone(p)
  BY <1>1, ExitInv
<1>2. CASE /\ At(p, "encrypt1")
           /\ \/ Succeeds(p) /\ Set(ctxt1, p, "good")
              \/ kind[p] = "main" /\ Fails(p) /\ UNCHANGED ctxt1
           /\ Set(step, p, IF kind[p] = "main" THEN "encrypt2" ELSE "describe")
           /\ UNCHANGED <<ehVars, kind, live, desc, res, printed>>
  <2>1. ToolTypeOK'
    BY <1>2 DEF Set, EtInv, ToolTypeOK, Steps, Buffer, Succeeds, Fails
  <2>2. /\ step[p] = "encrypt1" /\ UNCHANGED stage
        /\ step'[p] = IF kind[p] = "main" THEN "encrypt2" ELSE "describe"
    BY <1>2 DEF Set, At, EtInv, ToolTypeOK, ehVars
  <2>3. \/ ctxt1'[p] = "good" /\ failed'[p] = failed[p]
        \/ kind[p] = "main" /\ failed'[p] = TRUE
    BY <1>2 DEF Set, EtInv, ToolTypeOK, Succeeds, Fails
  <2>4. ToolInv(p)'
    <3>1. kind[p] \in {"main", "Evaluate_Value"} /\ stage[p] = "ready"
      BY <1>2, <2>2 DEF At, EtInv, ToolTypeOK, ToolInv, PlaceInv, Kinds
    <3>2. res[p] = "bad" /\ printed[p] = "nothing"
      BY <2>2 DEF EtInv, ToolInv, PlaceInv
    <3> QED
      BY <1>2, <2>2, <2>3, <3>1, <3>2 DEF ToolInv, PlaceInv, ContentInv, Explained, Blank
  <2>5. \A q \in Others \ {p} : Untouched(q)
    BY <1>2, <2>2 DEF Set, EtInv, ToolTypeOK, Untouched, Succeeds, Fails
  <2> QED
    BY <2>1, <2>4, <2>5, OneMoves
<1>3. CASE /\ At(p, "encrypt2")
           /\ Succeeds(p) \/ (kind[p] = "main" /\ Fails(p))
           /\ Set(step, p, "add")
           /\ UNCHANGED <<ehVars, kind, live, desc, ctxt1, res, printed>>
  <2>1. ToolTypeOK'
    BY <1>3 DEF Set, EtInv, ToolTypeOK, Steps, Succeeds, Fails
  <2>2. step[p] = "encrypt2" /\ step'[p] = "add" /\ UNCHANGED stage
    BY <1>3 DEF Set, At, EtInv, ToolTypeOK, ehVars
  <2>3. failed'[p] = failed[p] \/ failed'[p] = TRUE
    BY <1>3 DEF Set, EtInv, ToolTypeOK, Succeeds, Fails
  <2>4. ToolInv(p)'
    BY <1>3, <2>2, <2>3 DEF At, EtInv, ToolInv, PlaceInv, ContentInv, Explained, Blank
  <2>5. \A q \in Others \ {p} : Untouched(q)
    BY <1>3, <2>2 DEF Set, EtInv, ToolTypeOK, Untouched, Succeeds, Fails
  <2> QED
    BY <2>1, <2>4, <2>5, OneMoves
<1> QED
  BY <1>1, <1>2, <1>3 DEF EncryptExpression, EncryptDescription
(* What the evaluation returns is explained by what went in.               *)
LEMMA AddInv ==
  ASSUME EhTypeOK, EtInv, NEW p \in Others, AddEncrypted(p)
  PROVE  EtInv'
<1>1. /\ step[p] = "add" /\ stage[p] = "ready" /\ step'[p] = "decrypt"
      /\ step' = [step EXCEPT ![p] = "decrypt"]
      /\ UNCHANGED <<stage, kind, desc, ctxt1, printed>>
  BY DEF AddEncrypted, At, Set, EtInv, ToolTypeOK, ehVars
<1>2. /\ res[p] = "bad" /\ printed[p] = "nothing" /\ kind[p] \in {"main", "Evaluate_Value"}
      /\ ctxt1[p] = "good" \/ (kind[p] = "main" /\ failed[p])
  BY <1>1 DEF EtInv, ToolTypeOK, ToolInv, PlaceInv, ContentInv, Kinds
<1>3. CASE Succeeds(p) /\ UNCHANGED live /\ \E r \in Evaluations(p) : Set(res, p, r)
  <2>1. PICK r \in Evaluations(p) : res' = [res EXCEPT ![p] = r]
    BY <1>3 DEF Set
  <2>2. /\ r \in {"good", "sealed"}
        /\ r = "sealed" =>
             ctxt1[p] # "good" \/ (kind[p] = "Evaluate_Value" /\ desc[p] = "long")
    <3>1. CASE ctxt1[p] # "good"
      <4>1. r \in {"sealed"}
        BY <3>1 DEF Evaluations
      <4> QED
        BY <3>1, <4>1
    <3>2. CASE ctxt1[p] = "good" /\ kind[p] = "Evaluate_Value" /\ desc[p] = "long"
      <4>1. r \in {"good", "sealed"}
        BY <3>2 DEF Evaluations
      <4> QED
        BY <3>2, <4>1
    <3>3. CASE ctxt1[p] = "good" /\ ~(kind[p] = "Evaluate_Value" /\ desc[p] = "long")
      <4>1. r \in {"good"}
        BY <3>3 DEF Evaluations
      <4> QED
        BY <4>1
    <3> QED
      BY <3>1, <3>2, <3>3
  <2>3. UNCHANGED <<live, failed>> /\ res'[p] = r
    BY <1>3, <2>1 DEF Succeeds, EtInv, ToolTypeOK
  <2>4. ToolTypeOK'
    BY <1>1, <2>1, <2>2, <2>3 DEF EtInv, ToolTypeOK, Steps, Buffer
  <2>5. ToolInv(p)'
    BY <1>1, <1>2, <2>2, <2>3 DEF ToolInv, PlaceInv, ContentInv, Explained, Blank
  <2>6. \A q \in Others \ {p} : Untouched(q)
    BY <1>1, <2>1, <2>3 DEF EtInv, ToolTypeOK, Untouched
  <2> QED
    BY <2>4, <2>5, <2>6, OneMoves
<1>4. CASE Fails(p) /\ UNCHANGED res /\ \E l \in {live[p], FALSE} : Set(live, p, l)
  <2>1. live' \in [Others -> BOOLEAN]
    BY <1>4 DEF Set, EtInv, ToolTypeOK
  <2>2. failed' = [failed EXCEPT ![p] = TRUE] /\ failed'[p] = TRUE /\ UNCHANGED res
    BY <1>4 DEF Fails, Set, EtInv, ToolTypeOK
  <2>3. ToolTypeOK'
    BY <1>1, <2>1, <2>2 DEF EtInv, ToolTypeOK, Steps
  <2>4. ToolInv(p)'
    BY <1>1, <1>2, <2>2 DEF ToolInv, PlaceInv, ContentInv, Explained, Blank
  <2>5. \A q \in Others \ {p} : Untouched(q)
    BY <1>1, <2>2 DEF EtInv, ToolTypeOK, Untouched
  <2> QED
    BY <2>3, <2>4, <2>5, OneMoves
<1> QED
  BY <1>3, <1>4 DEF AddEncrypted

(* What is shown then is explained by what is decrypted.                   *)
LEMMA DecryptToolInv ==
  ASSUME EhTypeOK, EtInv, NEW p \in Others, Decrypt(p)
  PROVE  EtInv'
<1>1. CASE Exit(p) /\ Gone(p)
  BY <1>1, ExitInv
<1>2. CASE /\ \/ Succeeds(p) /\ Set(printed, p, Shown(res[p]))
              \/ kind[p] = "main" /\ Fails(p) /\ Set(printed, p, "wrong")
           /\ Set(step, p, IF kind[p] = "main" THEN "destroy" ELSE "java")
           /\ UNCHANGED <<ehVars, kind, live, desc, ctxt1, res>>
  <2>1. /\ step[p] = "decrypt" /\ stage[p] = "ready"
        /\ step'[p] = (IF kind[p] = "main" THEN "destroy" ELSE "java")
        /\ UNCHANGED stage
    BY <1>2 DEF Decrypt, At, Set, EtInv, ToolTypeOK, ehVars
  <2>2. /\ kind[p] \in {"main", "Evaluate_Value"}
        /\ res[p] \in Buffer
        /\ res[p] = "bad" => failed[p]
        /\ res[p] = "sealed" =>
             \/ kind[p] = "main" /\ failed[p]
             \/ kind[p] = "Evaluate_Value" /\ desc[p] = "long"
    BY <2>1 DEF EtInv, ToolTypeOK, ToolInv, PlaceInv, ContentInv, Kinds
  <2>3. /\ Shown(res[p]) \in {"right", "wrong", "blank"}
        /\ Shown(res[p]) = "wrong" => res[p] = "sealed"
        /\ Shown(res[p]) = "blank" => res[p] = "bad"
    BY <2>2 DEF Shown, Buffer
  <2>4. PICK t \in {"right", "wrong", "blank"} :
          /\ printed' = [printed EXCEPT ![p] = t]
          /\ \/ t = Shown(res[p]) /\ UNCHANGED failed
             \/ /\ t = "wrong" /\ kind[p] = "main"
                /\ failed' = [failed EXCEPT ![p] = TRUE]
    <3>1. CASE Succeeds(p) /\ Set(printed, p, Shown(res[p]))
      BY <2>3, <3>1 DEF Succeeds, Set
    <3>2. CASE kind[p] = "main" /\ Fails(p) /\ Set(printed, p, "wrong")
      BY <3>2 DEF Fails, Set
    <3> QED
      BY <1>2, <3>1, <3>2
  <2>5. ToolTypeOK'
    BY <1>2, <2>4 DEF Set, EtInv, ToolTypeOK, Steps, Shows
  <2>6. /\ printed'[p] = t
        /\ \/ t = Shown(res[p]) /\ failed'[p] = failed[p]
           \/ t = "wrong" /\ kind[p] = "main" /\ failed'[p] = TRUE
    BY <2>4 DEF EtInv, ToolTypeOK
  <2>7. ToolInv(p)'
    BY <1>2, <2>1, <2>2, <2>3, <2>6 DEF ToolInv, PlaceInv, ContentInv, Explained, Blank
  <2>8. \A q \in Others \ {p} : Untouched(q)
    BY <1>2, <2>1, <2>4 DEF Set, EtInv, ToolTypeOK, Untouched
  <2> QED
    BY <2>5, <2>7, <2>8, OneMoves
<1> QED
  BY <1>1, <1>2 DEF Decrypt

(* showResult reports success of the call it made.                         *)
LEMMA EvaluatePlainInv ==
  ASSUME EhTypeOK, EtInv, NEW p \in Others, EvaluatePlain(p)
  PROVE  EtInv'
<1>1. CASE Exit(p) /\ Gone(p)
  BY <1>1, ExitInv
<1>2. CASE /\ Succeeds(p) /\ Set(printed, p, "success") /\ Set(step, p, "destroy")
           /\ UNCHANGED <<ehVars, kind, live, desc, ctxt1, res>>
  <2>1. ToolTypeOK'
    BY <1>2 DEF Succeeds, Set, EtInv, ToolTypeOK, Steps, Shows
  <2>2. /\ step[p] = "evaluate" /\ stage[p] = "ready" /\ ~failed[p]
        /\ step'[p] = "destroy" /\ printed'[p] = "success"
        /\ UNCHANGED <<stage, failed>>
    BY <1>2 DEF EvaluatePlain, At, Succeeds, Set, EtInv, ToolTypeOK, ToolInv, PlaceInv,
                Blank, ehVars
  <2>3. ToolInv(p)'
    BY <2>2 DEF ToolInv, PlaceInv, ContentInv, Explained, Blank
  <2>4. \A q \in Others \ {p} : Untouched(q)
    BY <1>2, <2>2 DEF Set, EtInv, ToolTypeOK, Untouched
  <2> QED
    BY <2>1, <2>3, <2>4, OneMoves
<1> QED
  BY <1>1, <1>2 DEF EvaluatePlain
----------------------------------------------------------------------------
LEMMA EtNextInv == EhTypeOK /\ EtInv /\ [EtNext]_etVars => EtInv'
<1> SUFFICES ASSUME EhTypeOK, EtInv, [EtNext]_etVars PROVE EtInv'
  OBVIOUS
<1>1. CASE UNCHANGED etVars
  <2>1. ToolTypeOK' /\ \A q \in Others : Untouched(q)
    BY <1>1 DEF EtInv, ToolTypeOK, Untouched, etVars, toolState, ehVars
  <2> QED
    BY <2>1, UntouchedInv DEF EtInv
<1>2. CASE ServerStep
  <2>1. UNCHANGED toolState /\ \A q \in Others : stage'[q] = stage[q]
    BY <1>2, ServerStepStages DEF ServerStep
  <2>2. ToolTypeOK' /\ \A q \in Others : Untouched(q)
    BY <2>1 DEF EtInv, ToolTypeOK, Untouched, toolState
  <2> QED
    BY <2>2, UntouchedInv DEF EtInv
<1>3. ASSUME NEW p \in Others, ToolStep(p) PROVE EtInv'
  <2>1. CASE ToolStart(p) \/ ToolInitialize(p) \/ EnclaveGone(p)
    BY <2>1, StartGoneInv, ToolInitializeInv
  <2>2. CASE ToolKilled(p)
    BY <2>2, ExitInv DEF ToolKilled
  <2>3. CASE ReadExpression(p) \/ ReadDescription(p)
    BY <2>3, ReadInv
  <2>4. CASE EncryptExpression(p) \/ EncryptDescription(p)
    BY <2>4, EncryptInv
  <2>5. CASE AddEncrypted(p) \/ Decrypt(p) \/ EvaluatePlain(p)
    BY <2>5, AddInv, DecryptToolInv, EvaluatePlainInv
  <2>6. CASE JavaDecrypt(p) \/ DESTROY_ENCLAVE(p)
    BY <2>6, ExitInv DEF JavaDecrypt, DESTROY_ENCLAVE
  <2> QED
    BY <1>3, <2>1, <2>2, <2>3, <2>4, <2>5, <2>6 DEF ToolStep
<1> QED
  BY <1>1, <1>2, <1>3 DEF EtNext

(* The strengthened invariant of the programs around the enclave.          *)
THEOREM EtInvariance == EtSpec => []EtInv
<1>1. EtSpec => []EhTypeOK
  BY ToolsAreHosts, EhTypeCorrect, PTL
<1> QED
  BY <1>1, EtInitInv, EtNextInv, PTL DEF EtSpec

(* Every result that is not right has one of the causes named: a failed    *)
(* call that the benchmark ignored, or a long description on the console.  *)
THEOREM EtResultsExplained == EtSpec => []ResultsExplained
<1>1. EtInv => ResultsExplained
  BY DEF EtInv, ToolInv, Explained, ResultsExplained
<1> QED
  BY <1>1, EtInvariance, PTL

(* The token file stays whole and the server gets the evaluation it was    *)
(* promised, whatever these programs do beside it.                         *)
THEOREM EtHostProperties == EtSpec => [](TokenWhole /\ FreshEnclave) /\ ImplementsEvaluation
BY ToolsAreHosts, EhTokenWhole, EhFreshEnclave, EhImplementsEvaluation, PTL
=============================================================================
