----------------------- MODULE EnclaveBridge_proofs -----------------------
(***************************************************************************)
(* The bridge leaks nothing, runs an enclave function with the host's      *)
(* arguments and tells the truth about its buffers, for any tables and any *)
(* number of OCALLs.                                                       *)
(***************************************************************************)
EXTENDS EnclaveBridge, SequenceTheorems, TLAPS

Contents == {"none", "copy", "zero", "result"}

Passed == \A i \in 1 .. Len(fn.ptrs) : Checked(i) => ptr[i] = "outside"

NoCopies == \A i \in 1 .. Len(fn.ptrs) : heap[i] = "none"

Untouched == \A i \in 1 .. Len(fn.ptrs) : memory[i] = "old"

AllCopied ==
  \A i \in 1 .. Len(fn.ptrs) :
    heap[i] = IF Checked(i) THEN FirstCopy(fn.ptrs[i]) ELSE "none"

FirstCopied ==
  \A i \in 1 .. Len(fn.ptrs) :
    heap[i] = IF i < next /\ Checked(i) THEN FirstCopy(fn.ptrs[i]) ELSE "none"

(* The copies on their way back: after success the results, after a        *)
(* failed allocation what had been allocated in front of it.               *)
Returning ==
  \A i \in 1 .. Len(fn.ptrs) :
    /\ i < next => heap[i] = "none"
    /\ status = "success" =>
         /\ i < next =>
              memory[i] = IF Checked(i) /\ Writes(fn.ptrs[i]) THEN "result" ELSE "old"
         /\ i >= next =>
              /\ memory[i] = "old"
              /\ Writes(fn.ptrs[i]) =>
                   heap[i] = IF Checked(i) THEN "result" ELSE "none"
    /\ status = "nomem" =>
         /\ heap[i] # "result" /\ memory[i] # "result"
         /\ i = Len(fn.ptrs) => heap[i] = "none" /\ memory[i] = "old"

Returned ==
  /\ status = "success" =>
       \A i \in 1 .. Len(fn.ptrs) :
         memory[i] = IF Checked(i) /\ Writes(fn.ptrs[i]) THEN "result" ELSE "old"
  /\ status = "nomem" =>
       \A i \in 1 .. Len(fn.ptrs) :
         memory[i] # "result" /\ (i = Len(fn.ptrs) => memory[i] = "old")
  /\ status = "invalid" => Untouched

CallInv ==
  /\ stage = "check" => status = "success" /\ next = 1 /\ NoCopies /\ Untouched
  /\ stage = "allocate" => status = "success" /\ Passed /\ FirstCopied /\ Untouched
  /\ stage \in {"run", "handler", "unmarshal"} =>
       status = "success" /\ Passed /\ AllCopied /\ Untouched
  /\ stage = "copy" => status \in {"success", "nomem"} /\ Returning
  /\ stage \in {"exit", "host"} => NoCopies /\ Returned

RetvalInv ==
  /\ stage # "host" => retval = "unset"
  /\ retval # "unset" => status = "success"

(* The untrusted stack holds one frame exactly while a handler runs.       *)
FrameInv ==
  IF stage \in {"handler", "unmarshal"} THEN Len(frame) = 1 ELSE frame = <<>>

Frames == UNION {[1 .. k -> Contents] : k \in Nat}

FrameType == frame \in Seq(Frames)

(* What is known of an OCALL while it runs and afterwards.                 *)
OcallRecord ==
  ocall = [fn |-> ocall.fn, handler |-> ocall.handler, ptr |-> ocall.ptr,
           memory |-> ocall.memory, status |-> ocall.status, retval |-> ocall.retval]

Marshalled == Frame(ocall.fn, ocall.ptr)

Handled ==
  [k \in 1 .. Len(ocall.fn.ptrs) |->
     IF Marshalled[k] # "none" /\ Writes(ocall.fn.ptrs[k]) THEN "result" ELSE Marshalled[k]]

OcallInv ==
  /\ OcallRecord
  /\ stage \in {"check", "allocate"} => ocalls = 0
  /\ stage \in {"handler", "unmarshal"} =>
       /\ Len(ocall.fn.ptrs) \in Nat
       /\ ocall.memory = Copies(ocall.fn, "old")
  /\ stage = "handler" =>
       ocall.status = "success" /\ ocall.retval = "unset" /\ frame[1] = Marshalled
  /\ stage = "unmarshal" =>
       \/ /\ ocall.status = "success" /\ frame[1] = Handled
          /\ ocall.retval = IF ocall.fn.returns THEN "set" ELSE "unset"
       \/ ocall.status = "failed" /\ ocall.retval = "unset" /\ frame[1] = Marshalled
  /\ OcallStatusTells

BrInv == BrTypeOK /\ FrameType /\ FrameInv /\ CallInv /\ RetvalInv

----------------------------------------------------------------------------
(* The pointers of a bridge function and of a stub form a sequence.        *)
LEMMA TablesTyped ==
  ASSUME NEW b \in Bridges
  PROVE  /\ \A i \in 1 .. Len(b.ecalls) :
              Len(b.ecalls[i].ptrs) \in Nat /\ b.ecalls[i].ptrs \in Seq(Directions)
         /\ \A i \in 1 .. Len(b.stubs) :
              Len(b.stubs[i].ptrs) \in Nat /\ b.stubs[i].ptrs \in Seq(Directions)
  BY TablesAssumption

(* Every copy starts as one of two contents.                               *)
LEMMA FirstCopyTyped == \A d : FirstCopy(d) \in {"copy", "zero"}
  BY DEF FirstCopy

(* A frame is typed.                                                       *)
LEMMA FrameTyped ==
  ASSUME NEW f, NEW p, Len(f.ptrs) \in Nat
  PROVE  Frame(f, p) \in Frames
  BY FirstCopyTyped DEF Frame, Frames, Contents

LEMMA BrInitInv == BrInit => BrInv
<1> SUFFICES ASSUME BrInit PROVE BrInv
  OBVIOUS
<1>1. PICK b \in Bridges : bridge = b /\ fn = b.ecalls[1]
  BY DEF BrInit
<1>2. Len(fn.ptrs) \in Nat /\ 1 \in 1 .. Len(b.ecalls)
  BY <1>1, TablesTyped, TablesAssumption
<1>3. BrTypeOK
  BY <1>1, <1>2, OcallBound DEF BrInit, BrTypeOK, Copies, Stages, Places
<1>4. FrameType /\ FrameInv /\ RetvalInv
  BY DEF BrInit, FrameType, FrameInv, RetvalInv
<1>5. CallInv
  BY DEF BrInit, CallInv, NoCopies, Returned, Untouched, Checked, Copies
<1> QED
  BY <1>3, <1>4, <1>5 DEF BrInv

LEMMA BrStepInv == BrInv /\ [BrNext]_brVars => BrInv'
<1> SUFFICES ASSUME BrInv, [BrNext]_brVars PROVE BrInv'
  OBVIOUS
<1> DEFINE n == Len(fn.ptrs)
<1>n. /\ n \in Nat
      /\ \A i \in 1 .. n : fn.ptrs[i] \in Directions
  <2>1. PICK i \in 1 .. Len(bridge.ecalls) : fn = bridge.ecalls[i]
    BY DEF BrInv, BrTypeOK
  <2>2. bridge \in Bridges
    BY DEF BrInv, BrTypeOK
  <2>3. n \in Nat /\ fn.ptrs \in Seq(Directions)
    BY <2>1, <2>2, TablesTyped
  <2> QED
    BY <2>3
<1> USE DEF BrInv
<1>1. ASSUME NEW b \in Bridges, NEW i \in 1 .. Len(b.ecalls), CallProxy(b, i)
      PROVE  BrInv'
  <2>1. Len(fn'.ptrs) \in Nat
    BY <1>1, TablesTyped DEF CallProxy
  <2>2. BrTypeOK'
    BY <1>1, <2>1, OcallBound DEF CallProxy, BrTypeOK, Copies, Stages
  <2>3. FrameType' /\ FrameInv' /\ RetvalInv'
    BY <1>1 DEF CallProxy, FrameType, FrameInv, RetvalInv
  <2>4. CallInv'
    BY <1>1, <2>1 DEF CallProxy, CallInv, NoCopies, Returned, Untouched, Copies
  <2> QED
    BY <2>2, <2>3, <2>4
<1>2. CASE CheckPointers
  <2>1. BrTypeOK' /\ FrameType' /\ FrameInv' /\ RetvalInv'
    BY <1>2 DEF CheckPointers, BrTypeOK, FrameType, FrameInv, RetvalInv, Stages,
      hostVars, ocallVars
  <2>2. CallInv'
    BY <1>2, <1>n DEF CheckPointers, CallInv, NoCopies, Returned, Untouched, Passed,
      FirstCopied, Checked, hostVars, BrTypeOK
  <2> QED
    BY <2>1, <2>2
<1>3. CASE Allocate
  <2>1. BrTypeOK'
    BY <1>3, <1>n, FirstCopyTyped DEF Allocate, BrTypeOK, hostVars, ocallVars
  <2>f. FrameType' /\ FrameInv' /\ RetvalInv'
    BY <1>3, <1>n, FirstCopyTyped DEF Allocate, FrameType, FrameInv, RetvalInv, hostVars, ocallVars
  <2>2. CallInv'
    BY <1>3, <1>n DEF Allocate, CallInv, Untouched, Passed, FirstCopied, Checked,
      hostVars, BrTypeOK
  <2> QED
    BY <2>1, <2>2, <2>f
<1>4. CASE AllocateFails
  <2>1. BrTypeOK'
    BY <1>4, <1>n DEF AllocateFails, BrTypeOK, Stages, hostVars, ocallVars
  <2>f. FrameType' /\ FrameInv' /\ RetvalInv'
    BY <1>4, <1>n DEF AllocateFails, FrameType, FrameInv, RetvalInv, hostVars, ocallVars
  <2>2. CallInv'
    BY <1>4, <1>n, FirstCopyTyped DEF AllocateFails, CallInv, Untouched, FirstCopied,
      Returning, hostVars, BrTypeOK
  <2> QED
    BY <2>1, <2>2, <2>f
<1>5. CASE EnterFunction
  <2>1. BrTypeOK'
    BY <1>5 DEF EnterFunction, BrTypeOK, Stages, hostVars, ecallVars, ocallVars
  <2>f. FrameType' /\ FrameInv' /\ RetvalInv'
    BY <1>5 DEF EnterFunction, FrameType, FrameInv, RetvalInv, hostVars, ecallVars, ocallVars
  <2>2. CallInv'
    BY <1>5, <1>n DEF EnterFunction, CallInv, Untouched, FirstCopied, AllCopied,
      Passed, Checked, hostVars, ecallVars, BrTypeOK
  <2> QED
    BY <2>1, <2>2, <2>f
<1>6. CASE FunctionReturns
  <2>1. BrTypeOK'
    BY <1>6, <1>n DEF FunctionReturns, BrTypeOK, Stages, hostVars, ocallVars
  <2>f. FrameType' /\ FrameInv' /\ RetvalInv'
    BY <1>6, <1>n DEF FunctionReturns, FrameType, FrameInv, RetvalInv, hostVars, ocallVars
  <2>2. /\ stage' = "copy" /\ next' = 1 /\ status' = "success" /\ Untouched'
        /\ UNCHANGED <<fn, ptr>>
    BY <1>6 DEF FunctionReturns, CallInv, Untouched, hostVars
  <2>3. ASSUME NEW i \in 1 .. n, Writes(fn.ptrs[i])
        PROVE  heap'[i] = IF Checked(i) THEN "result" ELSE "none"
    BY <1>6, <2>3, FirstCopyTyped DEF FunctionReturns, CallInv, AllCopied
  <2>4. Returning'
    BY <1>n, <2>2, <2>3 DEF Returning, Untouched, Checked
  <2>5. CallInv'
    BY <2>2, <2>4 DEF CallInv
  <2> QED
    BY <2>1, <2>5, <2>f
<1>7. CASE CopyBack
  <2>a. next \in 1 .. n
    BY <1>7, <1>n DEF CopyBack, BrTypeOK
  <2>b. /\ heap' \in [1 .. n -> {"none", "copy", "zero", "result"}]
        /\ memory' \in [1 .. n -> {"old", "copy", "zero", "result"}]
    BY <1>7, <2>a DEF CopyBack, BrTypeOK
  <2>c. /\ next' \in 1 .. n + 1
        /\ UNCHANGED <<stage, bridge, fn, ptr, status, retval, frame, ocalls>>
    BY <1>7, <1>n, <2>a DEF CopyBack, hostVars, ocallVars
  <2>1. BrTypeOK' /\ FrameType' /\ FrameInv' /\ RetvalInv'
    BY <2>b, <2>c DEF BrTypeOK, FrameType, FrameInv, RetvalInv
  <2>2. CallInv'
    BY <1>7, <1>n DEF CopyBack, CallInv, Returning, Checked, hostVars, BrTypeOK
  <2> QED
    BY <2>1, <2>2
<1>8. CASE LeaveEnclave
  <2>1. BrTypeOK'
    BY <1>8 DEF LeaveEnclave, BrTypeOK, Stages, hostVars, ecallVars, ocallVars
  <2>f. FrameType' /\ FrameInv' /\ RetvalInv'
    BY <1>8 DEF LeaveEnclave, FrameType, FrameInv, RetvalInv, hostVars, ecallVars, ocallVars
  <2>2. CallInv'
    BY <1>8, <1>n DEF LeaveEnclave, CallInv, Returning, Returned, NoCopies, Checked,
      hostVars, ecallVars, BrTypeOK
  <2> QED
    BY <2>1, <2>2, <2>f
<1>9. CASE ProxyReturns
  <2>1. BrTypeOK'
    BY <1>9 DEF ProxyReturns, BrTypeOK, Stages, hostVars, ocallVars
  <2>f. FrameType' /\ FrameInv' /\ RetvalInv'
    BY <1>9 DEF ProxyReturns, FrameType, FrameInv, RetvalInv, hostVars, ocallVars
  <2>2. CallInv'
    BY <1>9 DEF ProxyReturns, CallInv, Returned, Untouched, NoCopies, Checked, hostVars
  <2> QED
    BY <2>1, <2>2, <2>f
<1>10. CASE EnclaveLost
  <2>1. BrTypeOK' /\ FrameType' /\ FrameInv' /\ RetvalInv'
    BY <1>10 DEF EnclaveLost, BrTypeOK, FrameType, FrameInv, RetvalInv,
      Stages, Inside, Copies, hostVars
  <2>2. CallInv'
    BY <1>10 DEF EnclaveLost, CallInv, Returned, NoCopies, Copies, hostVars
  <2> QED
    BY <2>1, <2>2
<1>11. ASSUME NEW i \in 1 .. Len(bridge.stubs), CallStub(i)
       PROVE  BrInv'
  <2> DEFINE f == bridge.stubs[i]
  <2>1. Len(f.ptrs) \in Nat /\ frame = <<>>
    BY <1>11, TablesTyped DEF CallStub, BrTypeOK, FrameInv
  <2>2. \/ stage' = stage /\ frame' = frame
        \/ stage' = "handler" /\ \E p : frame' = Append(frame, Frame(f, p))
    BY <1>11 DEF CallStub, OcallRefused
  <2>3. stage = "run" /\ UNCHANGED <<hostVars, ecallVars>>
    BY <1>11 DEF CallStub
  <2>4. BrTypeOK'
    BY <1>11, <2>2, <2>3, OcallBound DEF CallStub, BrTypeOK, Stages, hostVars, ecallVars
  <2>5. FrameType' /\ FrameInv'
    <3>1. CASE stage' = stage /\ frame' = frame
      BY <3>1 DEF FrameType, FrameInv
    <3>2. ASSUME NEW p, stage' = "handler", frame' = Append(frame, Frame(f, p))
          PROVE  FrameType' /\ FrameInv'
      <4>1. frame \in Seq(Frames) /\ Frame(f, p) \in Frames /\ Len(frame) = 0
        BY <2>1, FrameTyped DEF FrameType
      <4>2. frame' \in Seq(Frames) /\ Len(frame') = 1
        BY <3>2, <4>1, AppendProperties
      <4> QED
        BY <3>2, <4>2 DEF FrameType, FrameInv
    <3> QED
      BY <2>2, <3>1, <3>2
  <2>6. RetvalInv' /\ CallInv'
    BY <2>2, <2>3 DEF CallInv, RetvalInv, Passed, AllCopied, Untouched, Checked,
      hostVars, ecallVars
  <2> QED
    BY <2>4, <2>5, <2>6
<1>12. CASE RunHandler
  <2>1. stage = "handler" /\ stage' = "unmarshal" /\ UNCHANGED <<hostVars, ecallVars, ocalls>>
    BY <1>12 DEF RunHandler
  <2>2. Len(frame) = 1 /\ Top \in Frames
    BY <2>1 DEF FrameInv, FrameType, Top
  <2>3. frame' = frame \/ \E g \in Frames : frame' = [frame EXCEPT ![1] = g]
    <3>1. PICK k \in Nat : Top \in [1 .. k -> Contents]
      BY <2>2 DEF Frames
    <3>2. Len(Top) = k
      BY <3>1
    <3>3. [j \in 1 .. Len(Top) |-> IF Top[j] # "none" /\ Writes(ocall.fn.ptrs[j])
                                   THEN "result" ELSE Top[j]] \in Frames
      BY <3>1, <3>2 DEF Frames, Contents
    <3> QED
      BY <1>12, <2>2, <3>3 DEF RunHandler
  <2>4. FrameType' /\ FrameInv'
    BY <2>1, <2>2, <2>3, ExceptSeq DEF FrameType, FrameInv
  <2>5. BrTypeOK'
    BY <2>1 DEF BrTypeOK, Stages, hostVars, ecallVars
  <2>6. RetvalInv' /\ CallInv'
    BY <2>1 DEF CallInv, RetvalInv, Passed, AllCopied, Untouched, Checked,
      hostVars, ecallVars
  <2> QED
    BY <2>4, <2>5, <2>6
<1>13. CASE StubReturns
  <2>1. stage = "unmarshal" /\ stage' = "run" /\ UNCHANGED <<hostVars, ecallVars, ocalls>>
    BY <1>13 DEF StubReturns
  <2>2. frame' = <<>>
    BY <1>13, <2>1 DEF StubReturns, FrameInv, FrameType
  <2>3. FrameType' /\ FrameInv'
    BY <2>1, <2>2 DEF FrameType, FrameInv
  <2>4. BrTypeOK'
    BY <2>1 DEF BrTypeOK, Stages, hostVars, ecallVars
  <2>5. RetvalInv' /\ CallInv'
    BY <2>1 DEF CallInv, RetvalInv, Passed, AllCopied, Untouched, Checked,
      hostVars, ecallVars
  <2> QED
    BY <2>3, <2>4, <2>5
<1>14. CASE UNCHANGED brVars
  BY <1>14 DEF brVars, hostVars, ecallVars, ocallVars, BrTypeOK, FrameType, FrameInv,
    CallInv, RetvalInv, NoCopies, Untouched, Passed, FirstCopied, AllCopied, Returning,
    Returned, Checked
<1> QED
  BY <1>1, <1>2, <1>3, <1>4, <1>5, <1>6, <1>7, <1>8, <1>9, <1>10, <1>11, <1>12, <1>13,
    <1>14 DEF BrNext

(* The strengthened invariant holds in every reachable state.              *)
THEOREM BrInvariance == BrSpec => []BrInv
  BY BrInitInv, BrStepInv, PTL DEF BrSpec

(* Type correctness.                                                       *)
THEOREM BrTypeCorrect == BrSpec => []BrTypeOK
<1>1. BrInv => BrTypeOK
  BY DEF BrInv
<1> QED
  BY <1>1, BrInvariance, PTL

(* Nothing leaks, whichever step of a call fails.                          *)
THEOREM BrNothingLeaked == BrSpec => []NothingLeaked
<1>1. BrInv => NothingLeaked
  BY DEF BrInv, FrameInv, CallInv, NoCopies, NothingLeaked
<1> QED
  BY <1>1, BrInvariance, PTL

(* The enclave function gets what the host passed.                         *)
THEOREM BrArgumentsComplete == BrSpec => []ArgumentsComplete
<1>1. BrInv => ArgumentsComplete
  BY DEF BrInv, CallInv, AllCopied, Passed, ArgumentsComplete, FirstCopy, Reads,
    Checked, Copied
<1> QED
  BY <1>1, BrInvariance, PTL

(* The status tells the host what its buffers hold.                        *)
THEOREM BrHostSeesResult == BrSpec => []HostSeesResult
<1>1. BrInv => HostSeesResult
  BY DEF BrInv, CallInv, Returned, Untouched, RetvalInv, HostSeesResult
<1> QED
  BY <1>1, BrInvariance, PTL

----------------------------------------------------------------------------
(* An OCALL, from the stub through the handler back into the stub.         *)
LEMMA OcallStepInv == BrInv /\ OcallInv /\ [BrNext]_brVars => OcallInv'
<1> SUFFICES ASSUME BrInv, OcallInv, [BrNext]_brVars PROVE OcallInv'
  OBVIOUS
<1>1. ASSUME NEW i \in 1 .. Len(bridge.stubs), CallStub(i)
      PROVE  OcallInv'
  <2> DEFINE f == bridge.stubs[i]
  <2>1. Len(f.ptrs) \in Nat /\ frame = <<>> /\ stage = "run"
    BY <1>1, TablesTyped DEF CallStub, BrInv, BrTypeOK, FrameInv
  <2>2. PICK p :
          \/ OcallRefused(f, p, "unexpected")
          \/ OcallRefused(f, p, "invalid")
          \/ /\ ocall' = [fn |-> f, handler |-> bridge.handlers[i], ptr |-> p,
                          memory |-> Copies(f, "old"), status |-> "success",
                          retval |-> "unset"]
             /\ frame' = Append(frame, Frame(f, p)) /\ stage' = "handler"
    BY <1>1 DEF CallStub
  <2>3. ASSUME NEW why \in {"unexpected", "invalid"}, OcallRefused(f, p, why)
        PROVE  OcallInv'
    <3>1. /\ ocall' = [fn |-> f, handler |-> "none", ptr |-> p,
                       memory |-> Copies(f, "old"), status |-> why, retval |-> "unset"]
          /\ stage' = "run"
      BY <2>1, <2>3 DEF OcallRefused
    <3> QED
      BY <2>1, <3>1 DEF OcallInv, OcallRecord, OcallStatusTells, Copies
  <2>4. CASE stage' = "handler"
    <3>1. /\ ocall' = [fn |-> f, handler |-> bridge.handlers[i], ptr |-> p,
                       memory |-> Copies(f, "old"), status |-> "success",
                       retval |-> "unset"]
          /\ frame' = Append(frame, Frame(f, p))
      BY <2>1, <2>2, <2>4 DEF OcallRefused
    <3>2. frame \in Seq(Frames) /\ Frame(f, p) \in Frames /\ Len(frame) = 0
      BY <2>1, FrameTyped DEF FrameType, BrInv
    <3>3. frame'[1] = Frame(f, p)
      BY <3>1, <3>2, AppendProperties
    <3>4. frame'[1] = Marshalled'
      BY <3>1, <3>3 DEF Marshalled, Frame, Copied, FirstCopy, Reads
    <3>5. OcallRecord' /\ (ocall.memory = Copies(ocall.fn, "old"))'
      BY <3>1 DEF OcallRecord, Copies
    <3> QED
      BY <2>1, <2>4, <3>1, <3>4, <3>5 DEF OcallInv, OcallStatusTells
  <2> QED
    BY <2>1, <2>2, <2>3, <2>4
<1>2. CASE RunHandler
  <2>1. /\ stage = "handler" /\ stage' = "unmarshal" /\ Len(frame) = 1
        /\ frame[1] = Marshalled /\ Len(ocall.fn.ptrs) \in Nat
        /\ Marshalled \in [1 .. Len(ocall.fn.ptrs) -> Contents]
        /\ frame \in Seq(Frames)
    BY <1>2, FirstCopyTyped DEF RunHandler, BrInv, FrameInv, FrameType, OcallInv,
      Marshalled, Frame, Contents
  <2>2. Top = Marshalled /\ Len(Top) = Len(ocall.fn.ptrs)
    BY <2>1 DEF Top
  <2>3. CASE ocall' = [ocall EXCEPT !.status = "failed"] /\ frame' = frame
    <3>1. /\ OcallRecord' /\ ocall'.status = "failed"
          /\ ocall'.fn = ocall.fn /\ ocall'.ptr = ocall.ptr
          /\ ocall'.memory = ocall.memory /\ ocall'.retval = ocall.retval
      BY <2>3 DEF OcallInv, OcallRecord
    <3>2. Marshalled' = Marshalled /\ (ocall.memory = Copies(ocall.fn, "old"))'
      BY <2>1, <3>1 DEF Marshalled, Frame, OcallInv, Copies
    <3> QED
      BY <2>1, <2>3, <3>1, <3>2 DEF OcallInv, OcallStatusTells
  <2>4. CASE /\ frame' = [frame EXCEPT ![1] = Handled]
             /\ ocall' = [ocall EXCEPT !.retval = IF ocall.fn.returns THEN "set" ELSE "unset"]
    <3>1. /\ OcallRecord' /\ ocall'.status = ocall.status
          /\ ocall'.fn = ocall.fn /\ ocall'.ptr = ocall.ptr
          /\ ocall'.memory = ocall.memory
          /\ ocall'.retval = IF ocall.fn.returns THEN "set" ELSE "unset"
      BY <2>4 DEF OcallInv, OcallRecord
    <3>2. /\ Handled' = Handled /\ (ocall.memory = Copies(ocall.fn, "old"))'
      BY <2>1, <3>1 DEF Handled, Marshalled, Frame, OcallInv, Copies
    <3>3. frame'[1] = Handled
      BY <2>1, <2>4
    <3> QED
      BY <2>1, <3>1, <3>2, <3>3 DEF OcallInv, OcallStatusTells
  <2> QED
    BY <1>2, <2>1, <2>2, <2>3, <2>4 DEF RunHandler, Handled
<1>3. CASE StubReturns
  <2> DEFINE f == ocall.fn
  <2>1. /\ stage = "unmarshal" /\ stage' = "run" /\ Len(frame) = 1
        /\ Top = frame[1] /\ Len(f.ptrs) \in Nat
        /\ frame[1] = Marshalled \/ frame[1] = Handled
        /\ ocall.memory = Copies(f, "old")
    BY <1>3 DEF StubReturns, BrInv, FrameInv, OcallInv, Top
  <2>2. Len(Top) = Len(f.ptrs)
    BY <2>1 DEF Marshalled, Handled, Frame
  <2>3. /\ OcallRecord' /\ ocall'.fn = f /\ ocall'.ptr = ocall.ptr
        /\ ocall'.status = ocall.status
        /\ ocall'.retval = IF f.returns /\ ocall.retval = "unset" THEN "garbage"
                           ELSE ocall.retval
        /\ ocall'.memory = [k \in 1 .. Len(Top) |->
                              IF Top[k] # "none" /\ Writes(f.ptrs[k])
                              THEN Top[k] ELSE ocall.memory[k]]
    BY <1>3 DEF StubReturns, OcallInv, OcallRecord
  <2>4. \A k \in 1 .. Len(f.ptrs) :
          /\ Marshalled[k] # "result"
          /\ Writes(f.ptrs[k]) /\ ocall.ptr[k] # "null" => Marshalled[k] # "none"
    BY FirstCopyTyped DEF Marshalled, Frame, Writes, Copied
  <2>5. CASE ocall.status = "success"
    <3>1. frame[1] = Handled /\ ocall.retval = IF f.returns THEN "set" ELSE "unset"
      BY <2>1, <2>5 DEF OcallInv
    <3>2. ASSUME NEW k \in 1 .. Len(f.ptrs), Writes(f.ptrs[k]), ocall.ptr[k] # "null"
          PROVE  ocall'.memory[k] = "result"
      <4>1. Marshalled[k] # "none"
        BY <2>4, <3>2
      <4>2. Top[k] = "result"
        BY <2>1, <3>1, <3>2, <4>1 DEF Handled
      <4> QED
        BY <2>2, <2>3, <3>2, <4>2
    <3>3. ocall'.retval = IF f.returns THEN "set" ELSE "unset"
      BY <2>3, <3>1
    <3>4. OcallStatusTells'
      BY <2>3, <2>5, <3>2, <3>3 DEF OcallStatusTells
    <3> QED
      BY <2>1, <2>3, <3>4 DEF OcallInv
  <2>6. CASE ocall.status = "failed"
    <3>1. frame[1] = Marshalled /\ ocall.retval = "unset"
      BY <2>1, <2>6 DEF OcallInv
    <3>2. ASSUME NEW k \in 1 .. Len(f.ptrs)
          PROVE  ocall'.memory[k] # "result"
      BY <2>1, <2>2, <2>3, <2>4, <3>1, <3>2 DEF Copies
    <3>3. ocall'.retval # "set"
      BY <2>3, <3>1
    <3>4. OcallStatusTells'
      BY <2>3, <2>6, <3>2, <3>3 DEF OcallStatusTells
    <3> QED
      BY <2>1, <2>3, <3>4 DEF OcallInv
  <2> QED
    BY <2>1, <2>5, <2>6 DEF OcallInv
<1>4. ASSUME NEW b \in Bridges, NEW i \in 1 .. Len(b.ecalls), CallProxy(b, i)
      PROVE  OcallInv'
  BY <1>4 DEF CallProxy, OcallInv, OcallRecord, OcallStatusTells, NoOcall
<1>5. CASE CheckPointers \/ Allocate \/ AllocateFails
  BY <1>5 DEF CheckPointers, Allocate, AllocateFails, ocallVars, OcallInv, OcallRecord,
    OcallStatusTells
<1>6. CASE EnterFunction
  BY <1>6 DEF EnterFunction, ocallVars, OcallInv, OcallRecord, OcallStatusTells
<1>7. CASE FunctionReturns \/ CopyBack \/ LeaveEnclave \/ ProxyReturns
  BY <1>7 DEF FunctionReturns, CopyBack, LeaveEnclave, ProxyReturns, ocallVars,
    OcallInv, OcallRecord, OcallStatusTells
<1>8. CASE EnclaveLost
  BY <1>8 DEF EnclaveLost, OcallInv, OcallRecord, OcallStatusTells
<1>9. CASE UNCHANGED brVars
  BY <1>9 DEF brVars, ocallVars, OcallInv, OcallRecord, OcallStatusTells, Marshalled,
    Handled, Frame
<1> QED
  BY <1>1, <1>2, <1>3, <1>4, <1>5, <1>6, <1>7, <1>8, <1>9 DEF BrNext

(* The status of an OCALL tells the enclave function what it got.          *)
THEOREM BrOcallStatusTells == BrSpec => []OcallStatusTells
<1>1. BrInit => OcallInv
  BY DEF BrInit, NoOcall, OcallInv, OcallRecord, OcallStatusTells
<1>2. OcallInv => OcallStatusTells
  BY DEF OcallInv
<1> QED
  BY <1>1, <1>2, BrInvariance, OcallStepInv, PTL DEF BrSpec

(***************************************************************************)
(* RightFunction asks of the tables just what the generator promises: the  *)
(* same names under the same numbers.                                      *)
(***************************************************************************)
Numbered ==
  \A b \in Bridges :
    /\ \A i \in 1 .. Len(b.ecalls) : b.proxies[i] = b.ecalls[i].name
    /\ \A i \in 1 .. Len(b.stubs) : b.handlers[i] = b.stubs[i].name

THEOREM BrRightFunction ==
  ASSUME Numbered
  PROVE  BrSpec => []RightFunction
<1> DEFINE Inv == /\ stage \in Stages /\ bridge \in Bridges
                  /\ RightFunction
<1>1. ASSUME BrInit PROVE Inv
  BY <1>1 DEF BrInit, Stages, Inside, RightFunction
<1>2. ASSUME Inv, BrTypeOK', [BrNext]_brVars PROVE Inv'
  <2>1. ASSUME NEW b \in Bridges, NEW i \in 1 .. Len(b.ecalls), CallProxy(b, i)
        PROVE  RightFunction'
    BY <1>2, <2>1 DEF Numbered, CallProxy, RightFunction
  <2>2. ASSUME NEW i \in 1 .. Len(bridge.stubs), CallStub(i) PROVE RightFunction'
    BY <1>2, <2>2 DEF Numbered, CallStub, OcallRefused, RightFunction, Inside, Stages,
      hostVars
  <2>3. ASSUME stage \in Inside, fn' = fn, wanted' = wanted, stage' # "handler"
        PROVE  RightFunction'
    BY <1>2, <2>3 DEF RightFunction
  <2>4. CASE CheckPointers \/ Allocate \/ AllocateFails \/ EnterFunction
    <3>1. stage \in Inside /\ fn' = fn /\ wanted' = wanted
      BY <2>4 DEF CheckPointers, Allocate, AllocateFails, EnterFunction, hostVars,
        Inside, Stages
    <3>2. stage' # "handler"
      BY <2>4 DEF CheckPointers, Allocate, AllocateFails, EnterFunction
    <3> QED
      BY <1>2, <2>3, <3>1, <3>2 DEF BrTypeOK
  <2>5. CASE FunctionReturns \/ CopyBack \/ LeaveEnclave \/ ProxyReturns
    <3>1. stage \in Inside /\ fn' = fn /\ wanted' = wanted
      BY <2>5 DEF FunctionReturns, CopyBack, LeaveEnclave, ProxyReturns, hostVars,
        Inside, Stages
    <3>2. stage' # "handler"
      BY <2>5 DEF FunctionReturns, CopyBack, LeaveEnclave, ProxyReturns
    <3> QED
      BY <1>2, <2>3, <3>1, <3>2 DEF BrTypeOK
  <2>7. CASE EnclaveLost \/ RunHandler \/ StubReturns
    <3>1. stage \in Inside /\ fn' = fn /\ wanted' = wanted
      BY <2>7 DEF EnclaveLost, RunHandler, StubReturns, hostVars, Inside, Stages
    <3>2. stage' # "handler"
      BY <2>7 DEF EnclaveLost, RunHandler, StubReturns
    <3> QED
      BY <1>2, <2>3, <3>1, <3>2 DEF BrTypeOK
  <2>6. CASE UNCHANGED brVars
    BY <1>2, <2>6 DEF brVars, hostVars, ocallVars, RightFunction
  <2> QED
    BY <1>2, <2>1, <2>2, <2>4, <2>5, <2>6, <2>7 DEF BrNext, BrTypeOK
<1> QED
  BY <1>1, <1>2, BrTypeCorrect, PTL DEF BrSpec
=============================================================================
