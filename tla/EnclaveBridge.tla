--------------------------- MODULE EnclaveBridge ---------------------------
(***************************************************************************)
(* The bridge between an enclave and its host: the proxies and handlers of *)
(* the *_u.c files, the bridge functions and OCALL stubs of the *_t.c      *)
(* files, all generated after one scheme, which this module is.  The       *)
(* functions themselves come as tables (module BridgeTables).              *)
(*                                                                         *)
(* The host's buffers are named by what is in them: "old" for what the     *)
(* host left there, "zero", or "result" for what the enclave function left *)
(* in its out buffer.  One thread; sgx_ecall, sgx_ocall and the untrusted  *)
(* stack of sgx_ocalloc are the SDK's.                                     *)
(***************************************************************************)
EXTENDS Naturals, Sequences

CONSTANTS
  Bridges,     \* records [ecalls, proxies, stubs, handlers], one per enclave
  MaxOcalls    \* bound: OCALLs in one ECALL

Directions == {"in", "out", "inout", "user_check"}

ASSUME OcallBound == MaxOcalls \in Nat
ASSUME TablesAssumption ==
  \A b \in Bridges :
    /\ \A i \in 1 .. Len(b.ecalls) : b.ecalls[i].ptrs \in Seq(Directions)
    /\ \A i \in 1 .. Len(b.stubs) : b.stubs[i].ptrs \in Seq(Directions)
    /\ Len(b.ecalls) \in Nat \ {0}
    /\ Len(b.proxies) = Len(b.ecalls) /\ Len(b.handlers) = Len(b.stubs)

VARIABLES
  stage,      \* where the thread is
  bridge,     \* the enclave it calls
  wanted,     \* name of the proxy the host has called
  fn,         \* the bridge function that sgx_ecall reached
  ptr,        \* where each pointer of the call points
  next,       \* the pointer that is worked on
  heap,       \* the bridge's copies in the enclave
  memory,     \* the host's buffers
  status,     \* what the ECALL returns
  retval,     \* the caller's *retval
  ocall,      \* the latest OCALL, as the enclave function sees it
  frame,      \* its copies on the untrusted stack, one sequence per frame
  ocalls      \* OCALLs made in this ECALL

hostVars == <<bridge, wanted, fn, ptr>>
ecallVars == <<next, heap, memory, status, retval>>
ocallVars == <<ocall, frame, ocalls>>
brVars == <<stage, hostVars, ecallVars, ocallVars>>

Stages == {"host", "check", "allocate", "run", "handler", "unmarshal", "copy", "exit"}
Inside == Stages \ {"host"}

(* A pointer may be null, point outside the enclave or into it.            *)
Places == {"null", "outside", "inside"}

Copies(f, c) == [i \in 1 .. Len(f.ptrs) |-> c]
Reads(dir) == dir \in {"in", "inout"}
Writes(dir) == dir \in {"out", "inout"}
Copied(dir) == dir # "user_check"

NoOcall == [fn |-> [name |-> "none", ptrs |-> <<>>, returns |-> FALSE],
            handler |-> "none", ptr |-> <<>>, memory |-> <<>>,
            status |-> "success", retval |-> "unset"]

BrInit ==
  /\ stage = "host"
  /\ \E b \in Bridges :
       /\ bridge = b
       /\ wanted = b.proxies[1] /\ fn = b.ecalls[1]
  /\ ptr = Copies(fn, "null") /\ next = 1
  /\ heap = Copies(fn, "none") /\ memory = Copies(fn, "old")
  /\ status = "success" /\ retval = "unset"
  /\ ocall = NoOcall /\ frame = <<>> /\ ocalls = 0

----------------------------------------------------------------------------
(***************************************************************************)
(* A proxy fills in the marshalling struct and calls sgx_ecall with its    *)
(* number; the enclave finds the bridge function in g_ecall_table.  When   *)
(* the enclave is lost the call fails at once.                             *)
(***************************************************************************)
CallProxy(b, i) ==
  /\ stage = "host"
  /\ bridge' = b /\ wanted' = b.proxies[i] /\ fn' = b.ecalls[i]
  /\ ptr' \in [1 .. Len(fn'.ptrs) -> Places]
  /\ next' = 1 /\ heap' = Copies(fn', "none") /\ memory' = Copies(fn', "old")
  /\ retval' = "unset"
  /\ \/ stage' = "check" /\ status' = "success"
     \/ stage' = "exit" /\ status' = "lost"
  /\ ocall' = NoOcall /\ ocalls' = 0
  /\ UNCHANGED frame

Checked(i) == Copied(fn.ptrs[i]) /\ ptr[i] # "null"

(* CHECK_UNIQUE_POINTER: a buffer must lie outside.                        *)
CheckPointers ==
  /\ stage = "check"
  /\ IF \A i \in 1 .. Len(fn.ptrs) : Checked(i) => ptr[i] = "outside"
     THEN stage' = "allocate" /\ UNCHANGED status
     ELSE stage' = "exit" /\ status' = "invalid"
  /\ UNCHANGED <<hostVars, next, heap, memory, retval, ocallVars>>

(* Mutant: a buffer that is only written to is not cleared.                *)
FirstCopy_NotCleared(dir) == "copy"

(* What a fresh copy holds.                                                *)
FirstCopy(dir) == IF Reads(dir) THEN "copy" ELSE "zero"

(* The next copy is allocated and filled in; a null pointer stays null and *)
(* a [user_check] pointer is passed on as it is.                           *)
Allocate ==
  /\ stage = "allocate" /\ next <= Len(fn.ptrs)
  /\ next' = next + 1
  /\ heap' = IF Checked(next)
             THEN [heap EXCEPT ![next] = FirstCopy(fn.ptrs[next])]
             ELSE heap
  /\ UNCHANGED <<stage, hostVars, memory, status, retval, ocallVars>>

(* Mutant: the error returns at once.                                      *)
AllocateFails_NoGoto ==
  /\ stage = "allocate" /\ next <= Len(fn.ptrs) /\ Checked(next)
  /\ status' = "nomem"
  /\ stage' = "exit" /\ next' = 1
  /\ UNCHANGED <<hostVars, heap, memory, retval, ocallVars>>

(* malloc fails: goto err.                                                 *)
AllocateFails ==
  /\ stage = "allocate" /\ next <= Len(fn.ptrs) /\ Checked(next)
  /\ status' = "nomem"
  /\ stage' = "copy" /\ next' = 1
  /\ UNCHANGED <<hostVars, heap, memory, retval, ocallVars>>

EnterFunction ==
  /\ stage = "allocate" /\ next > Len(fn.ptrs)
  /\ stage' = "run"
  /\ UNCHANGED <<hostVars, ecallVars, ocallVars>>

(* The enclave function returns, having written its out buffers.           *)
FunctionReturns ==
  /\ stage = "run"
  /\ heap' = [i \in 1 .. Len(fn.ptrs) |->
                IF heap[i] # "none" /\ Writes(fn.ptrs[i]) THEN "result" ELSE heap[i]]
  /\ stage' = "copy" /\ next' = 1
  /\ UNCHANGED <<hostVars, memory, status, retval, ocallVars>>

(* Copy the next buffer out, when there is one and it is to be written,    *)
(* and free it.                                                            *)
CopyBack ==
  /\ stage = "copy" /\ next <= Len(fn.ptrs)
  /\ next' = next + 1
  /\ memory' = IF heap[next] # "none" /\ Writes(fn.ptrs[next])
               THEN [memory EXCEPT ![next] = heap[next]]
               ELSE memory
  /\ heap' = [heap EXCEPT ![next] = "none"]
  /\ UNCHANGED <<stage, hostVars, status, retval, ocallVars>>

LeaveEnclave ==
  /\ stage = "copy" /\ next > Len(fn.ptrs)
  /\ stage' = "exit"
  /\ UNCHANGED <<hostVars, ecallVars, ocallVars>>

(* Mutant: the struct's return value is passed on whatever the status.     *)
ProxyReturns_AnyStatus ==
  /\ stage = "exit"
  /\ stage' = "host"
  /\ retval' = IF ~fn.returns THEN retval
               ELSE IF status = "success" THEN "set" ELSE "garbage"
  /\ UNCHANGED <<hostVars, next, heap, memory, status, ocallVars>>

(* The proxy passes the return value on after a successful call only.      *)
ProxyReturns ==
  /\ stage = "exit"
  /\ stage' = "host"
  /\ retval' = IF status = "success" /\ fn.returns THEN "set" ELSE retval
  /\ UNCHANGED <<hostVars, next, heap, memory, status, ocallVars>>

(***************************************************************************)
(* A power transition or a crash of the enclave function.  The enclave's   *)
(* heap is gone, and sgx_ecall unwinds the untrusted stack.                *)
(***************************************************************************)
EnclaveLost ==
  /\ stage \in Inside \ {"exit"}
  /\ stage' = "exit" /\ status' = "lost"
  /\ heap' = Copies(fn, "none") /\ frame' = <<>>
  /\ UNCHANGED <<hostVars, next, memory, retval, ocall, ocalls>>

----------------------------------------------------------------------------
(***************************************************************************)
(* An OCALL.  Its frame takes the struct and a copy of every buffer, which *)
(* must lie inside the enclave.  Without room for it the stub returns      *)
(* "unexpected", with a buffer outside "invalid", and frees the frame.     *)
(***************************************************************************)
Frame(f, p) ==
  [i \in 1 .. Len(f.ptrs) |->
     IF p[i] = "null" \/ ~Copied(f.ptrs[i]) THEN "none" ELSE FirstCopy(f.ptrs[i])]

OcallRefused(f, p, why) ==
  /\ ocall' = [fn |-> f, handler |-> "none", ptr |-> p, memory |-> Copies(f, "old"),
               status |-> why, retval |-> "unset"]
  /\ UNCHANGED <<stage, frame>>

(* Mutant: the frame of a refused OCALL is not freed.                      *)
OcallRefused_NoOcfree(f, p, why) ==
  /\ ocall' = [fn |-> f, handler |-> "none", ptr |-> p, memory |-> Copies(f, "old"),
               status |-> why, retval |-> "unset"]
  /\ frame' = IF why = "invalid" THEN Append(frame, Frame(f, p)) ELSE frame
  /\ UNCHANGED stage

CallStub(i) ==
  /\ stage = "run" /\ ocalls < MaxOcalls
  /\ ocalls' = ocalls + 1
  /\ LET f == bridge.stubs[i]
     IN \E p \in [1 .. Len(f.ptrs) -> Places] :
          \/ OcallRefused(f, p, "unexpected")
          \/ /\ \E k \in 1 .. Len(f.ptrs) : Copied(f.ptrs[k]) /\ p[k] = "outside"
             /\ OcallRefused(f, p, "invalid")
          \/ /\ \A k \in 1 .. Len(f.ptrs) : Copied(f.ptrs[k]) => p[k] # "outside"
             /\ ocall' = [fn |-> f, handler |-> bridge.handlers[i], ptr |-> p,
                          memory |-> Copies(f, "old"), status |-> "success",
                          retval |-> "unset"]
             /\ frame' = Append(frame, Frame(f, p))
             /\ stage' = "handler"
  /\ UNCHANGED <<hostVars, ecallVars>>

(* sgx_ocall finds the handler by its number and runs it, or fails.        *)
Top == frame[Len(frame)]

RunHandler ==
  /\ stage = "handler"
  /\ stage' = "unmarshal"
  /\ \/ /\ frame' = [frame EXCEPT ![Len(frame)] =
                       [k \in 1 .. Len(Top) |->
                          IF Top[k] # "none" /\ Writes(ocall.fn.ptrs[k])
                          THEN "result" ELSE Top[k]]]
        /\ ocall' = [ocall EXCEPT !.retval = IF ocall.fn.returns THEN "set" ELSE "unset"]
     \/ /\ ocall' = [ocall EXCEPT !.status = "failed"]
        /\ UNCHANGED frame
  /\ UNCHANGED <<hostVars, ecallVars, ocalls>>

(***************************************************************************)
(* The stub copies *retval and the out buffers from the frame, also when   *)
(* the call has failed: *retval is then whatever lay in the struct.        *)
(***************************************************************************)
(* Mutant: one buffer too few is copied.                                   *)
StubReturns_ButLast ==
  /\ stage = "unmarshal"
  /\ stage' = "run"
  /\ ocall' = [ocall EXCEPT
                 !.retval = IF ocall.fn.returns /\ @ = "unset" THEN "garbage" ELSE @,
                 !.memory = [k \in 1 .. Len(Top) |->
                               IF Top[k] # "none" /\ Writes(ocall.fn.ptrs[k]) /\ k < Len(Top)
                               THEN Top[k] ELSE ocall.memory[k]]]
  /\ frame' = SubSeq(frame, 1, Len(frame) - 1)
  /\ UNCHANGED <<hostVars, ecallVars, ocalls>>

StubReturns ==
  /\ stage = "unmarshal"
  /\ stage' = "run"
  /\ ocall' = [ocall EXCEPT
                 !.retval = IF ocall.fn.returns /\ @ = "unset" THEN "garbage" ELSE @,
                 !.memory = [k \in 1 .. Len(Top) |->
                               IF Top[k] # "none" /\ Writes(ocall.fn.ptrs[k])
                               THEN Top[k] ELSE ocall.memory[k]]]
  /\ frame' = SubSeq(frame, 1, Len(frame) - 1)
  /\ UNCHANGED <<hostVars, ecallVars, ocalls>>

BrNext ==
  \/ \E b \in Bridges : \E i \in 1 .. Len(b.ecalls) : CallProxy(b, i)
  \/ CheckPointers \/ Allocate \/ AllocateFails \/ EnterFunction
  \/ FunctionReturns \/ CopyBack \/ LeaveEnclave \/ ProxyReturns \/ EnclaveLost
  \/ \E i \in 1 .. Len(bridge.stubs) : CallStub(i)
  \/ RunHandler \/ StubReturns

BrSpec == BrInit /\ [][BrNext]_brVars

----------------------------------------------------------------------------
(* Every variable keeps its type.                                          *)
BrTypeOK ==
  LET n == Len(fn.ptrs)
  IN  /\ stage \in Stages
      /\ bridge \in Bridges
      /\ \E i \in 1 .. Len(bridge.ecalls) : fn = bridge.ecalls[i]
      /\ ptr \in [1 .. n -> Places]
      /\ next \in 1 .. n + 1
      /\ heap \in [1 .. n -> {"none", "copy", "zero", "result"}]
      /\ memory \in [1 .. n -> {"old", "copy", "zero", "result"}]
      /\ status \in {"success", "invalid", "nomem", "lost"}
      /\ retval \in {"unset", "set"}
      /\ ocalls \in 0 .. MaxOcalls

(***************************************************************************)
(* Whichever allocation, check or OCALL fails and wherever the enclave is  *)
(* lost, an ECALL that has returned has left no copy on the enclave's heap *)
(* and no frame on the untrusted stack.                                    *)
(***************************************************************************)
NothingLeaked ==
  stage \in {"exit", "host"} =>
    frame = <<>> /\ \A i \in 1 .. Len(fn.ptrs) : heap[i] = "none"

(***************************************************************************)
(* The enclave function runs with exactly the buffers the host passed: a   *)
(* copy of each in buffer, zeros for each out buffer, null for null, and   *)
(* no pointer into the enclave unless it is declared [user_check].         *)
(***************************************************************************)
ArgumentsComplete ==
  stage \in {"run", "handler", "unmarshal"} =>
    \A i \in 1 .. Len(fn.ptrs) :
      /\ heap[i] = IF Checked(i) THEN FirstCopy(fn.ptrs[i]) ELSE "none"
      /\ Checked(i) => ptr[i] = "outside"
      /\ Reads(fn.ptrs[i]) /\ ptr[i] # "null" => heap[i] = "copy"
      /\ fn.ptrs[i] = "out" => heap[i] \in {"none", "zero"}

(***************************************************************************)
(* What the host finds in its buffers and in *retval.  After success every *)
(* out buffer holds the function's result.  A call that ran out of memory  *)
(* may have zeroed the out buffers in front of the one it could not        *)
(* allocate, so never the last one; a refused one has written nothing; and *)
(* *retval is written by a successful call only.                           *)
(***************************************************************************)
HostSeesResult ==
  stage = "host" =>
    LET n == Len(fn.ptrs)
    IN  /\ status = "success" =>
             \A i \in 1 .. n :
               memory[i] = IF Checked(i) /\ Writes(fn.ptrs[i]) THEN "result" ELSE "old"
        /\ status = "nomem" =>
             \A i \in 1 .. n : memory[i] # "result" /\ (i = n => memory[i] = "old")
        /\ status = "invalid" => \A i \in 1 .. n : memory[i] = "old"
        /\ retval # "unset" => status = "success"

(***************************************************************************)
(* The proxy, the number it passes and the enclave's table lead to the     *)
(* function the host has called; a stub's number to the host's handler.    *)
(***************************************************************************)
RightFunction ==
  /\ stage \in Inside => fn.name = wanted
  /\ stage = "handler" => ocall.handler = ocall.fn.name

(***************************************************************************)
(* What the enclave function gets from an OCALL.  A stub copies *retval    *)
(* and the out buffers without a look at the status, and yet the status    *)
(* tells: after success both are the handler's, otherwise no buffer is,    *)
(* and *retval is unset or garbage.                                        *)
(***************************************************************************)
OcallStatusTells ==
  stage = "run" /\ ocalls > 0 =>
    /\ ocall.status = "success" =>
         /\ ocall.retval = IF ocall.fn.returns THEN "set" ELSE "unset"
         /\ \A k \in 1 .. Len(ocall.fn.ptrs) :
              Writes(ocall.fn.ptrs[k]) /\ ocall.ptr[k] # "null" =>
                ocall.memory[k] = "result"
    /\ ocall.status # "success" =>
         /\ ocall.retval # "set"
         /\ \A k \in 1 .. Len(ocall.fn.ptrs) : ocall.memory[k] # "result"
=============================================================================
