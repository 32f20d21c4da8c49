----------------------------- MODULE Evaluation -----------------------------
(***************************************************************************)
(* What Evaluate_ValueInput promises the server, whatever happens to the   *)
(* enclaves, to the token file and to the calls in between: an expression  *)
(* an enclave has evaluated is answered with its own value.  One that no   *)
(* enclave has evaluated, as the call was refused, may be answered with    *)
(* the value of another that this process evaluated before, of the same    *)
(* length; in a new process there is none.  The process may die at any     *)
(* time, and then the request is not answered at all.                      *)
(*                                                                         *)
(* The value of an expression is named by the expression.                  *)
(***************************************************************************)
CONSTANTS
  Expressions,
  Length      \* length of each expression

VARIABLES
  request,    \* the expression to be evaluated, at most one
  computed,   \* expressions evaluated by the enclaves of this process
  ready,      \* an enclave has evaluated the request
  answer      \* the latest answer: <<request, expression it is the value of>>

evVars == <<request, computed, ready, answer>>

EvInit == request = {} /\ computed = {} /\ ready = FALSE /\ answer = {}

Request(x) ==
  /\ request = {}
  /\ request' = {x} /\ answer' = {}
  /\ UNCHANGED <<computed, ready>>

Compute ==
  /\ request # {} /\ ~ready
  /\ ready' = TRUE
  /\ computed' = computed \union request
  /\ UNCHANGED <<request, answer>>

(* The expressions whose value the request may be answered with.           *)
Answers ==
  IF ready THEN request
  ELSE {y \in computed : \A x \in request : Length[y] = Length[x]}

Answer ==
  /\ request # {}
  /\ \E y \in Answers : answer' = request \X {y}
  /\ request' = {} /\ ready' = FALSE
  /\ UNCHANGED computed

(* The process ends, and another one may be started.                       *)
Crash == request' = {} /\ computed' = {} /\ ready' = FALSE /\ answer' = {}

EvNext ==
  \/ \E x \in Expressions : Request(x)
  \/ Compute \/ Answer \/ Crash

EvSpec == EvInit /\ [][EvNext]_evVars
=============================================================================
